---- MODULE Spec2Model ----
(***************************************************************************)
(* Model of ai-code-review-cli: the review command's per-file loop         *)
(* (src/src/test.js, the CLI entry), AIReviewer (src/src/ai-reviewer.ts,   *)
(* lines 1-271) and the reply parser with its JSON recovery.               *)
(*                                                                         *)
(* Texts (replies, paths, patterns, messages) are sequences of tokens.  A  *)
(* token is one structural character ("{", "}", "[", "]", the double       *)
(* quote, ":", ","), one blank, one code fence (three backquotes) or one   *)
(* run of other characters ("reviews", "x", "12", ...).                    *)
(***************************************************************************)
EXTENDS Integers, Sequences, FiniteSets, TLC

VARIABLES
    mode,       \* "cli": review command of the CLI; "api": AIReviewer.reviewChanges called directly; "parser": parseAIResponse alone
    config,     \* ReviewConfig (includePatterns, excludePatterns, maxFileSize) and the --quiet option
    diffs,      \* GitDiff[] handed to the loop
    idx,        \* position of the for-of loop in diffs (1-based)
    results,    \* the accumulating ReviewResult[]
    requests,   \* the requests issued so far (axios.get of /api/tags, axios.post of /api/generate)
    log,        \* history: what happened to each record, in processing order
    pc,         \* "start" | "changes" (the getter is to be called) | "reading" (the getter's loop) | "loop" | "await" (a generation request is in flight) | "done" | "thrown" (the getter threw) | "exited" (process.exit(1)) | "interrupted" (process.exit(0) of a signal handler)
    report,     \* what displayResults printed: the findings, in print order
    exitCode,   \* process.exitCode
    engine,     \* TRUE when the JS engine words the error "Unterminated string"
    reply,      \* parser specification: the raw reply text
    parsed,     \* parser specification: <<>> before, <<findings>> after parseAIResponse
    options,    \* the options object commander hands to the review action
    probe,      \* what the model service does with the model-listing request (GET /api/tags)
    health,     \* <<>> before, <<the HealthCheck value>> after checkHealth returned
    raw,        \* diff extraction: what git gives for one file (path, diff text, summary statistics, size on disk)
    summary,    \* <<>> before, <<what getSummary returned>> after displayResults computed it
    repo,       \* the working directory as git sees it: whether it is a repository, the files it lists and their diffs
    git,        \* the calls made to simple-git so far, in order
    extracted,  \* parser specification: jsonText as extractJSON returned it
    fixed       \* parser specification: jsonText as fixIncompleteJSON returned it, the text handed to JSON.parse

vars == <<mode, config, diffs, idx, results, requests, log, pc, report, exitCode, engine, reply, parsed, options, probe, health, raw, summary, repo, git, extracted, fixed>>

----------------------------------------------------------------------------
(* Bounds *)

MaxFiles == 2
MaxEntries == 2
MaxShort == 3
MaxModels == 2
MaxLines == 3
MaxResults == 3

----------------------------------------------------------------------------
(* Texts *)

Q == "\""
WS == " "
FENCE == "<fence>"   \* the three-backquote code fence

RECURSIVE Flatten(_)
Flatten(ss) == IF ss = <<>> THEN <<>> ELSE Head(ss) \o Flatten(Tail(ss))

Prefix(s, n) == SubSeq(s, 1, n)
Suffix(s, n) == SubSeq(s, n, Len(s))

\* String.prototype.includes at token granularity: t occurs in s as a contiguous run
OccursAt(s, t, i) == i + Len(t) - 1 <= Len(s) /\ SubSeq(s, i, i + Len(t) - 1) = t
Includes(s, t) == \E i \in 1..(Len(s) + 1) : OccursAt(s, t, i)

\* first index of token c in s at or after position from, 0 when there is none
FirstIndex(s, c, from) ==
    IF \E i \in from..Len(s) : s[i] = c
    THEN CHOOSE i \in from..Len(s) : s[i] = c /\ \A j \in from..(i - 1) : s[j] # c
    ELSE 0

\* String.prototype.lastIndexOf for a single token, 0 when there is none
LastIndex(s, c) ==
    IF \E i \in 1..Len(s) : s[i] = c
    THEN CHOOSE i \in 1..Len(s) : s[i] = c /\ \A j \in (i + 1)..Len(s) : s[j] # c
    ELSE 0

RECURSIVE TrimStart(_)
TrimStart(s) == IF s # <<>> /\ Head(s) = WS THEN TrimStart(Tail(s)) ELSE s

RECURSIVE TrimEnd(_)
TrimEnd(s) == IF s # <<>> /\ s[Len(s)] = WS THEN TrimEnd(Prefix(s, Len(s) - 1)) ELSE s

Trim(s) == TrimEnd(TrimStart(s))

----------------------------------------------------------------------------
\* JSON values.  Every value is a record of the same shape:
\*   t: "undefined" | "null" | "num" | "str" | "arr" | "obj" | "member"
\*   s: the text of a string or number, the key of a member
\*   items: the elements of an array, the members of an object, the value
\*          of a member

Undefined == [t |-> "undefined", s |-> <<>>, items |-> <<>>]
Null == [t |-> "null", s |-> <<>>, items |-> <<>>]
Num(n) == [t |-> "num", s |-> n, items |-> <<>>]
Str(s) == [t |-> "str", s |-> s, items |-> <<>>]
Arr(items) == [t |-> "arr", s |-> <<>>, items |-> items]
Obj(members) == [t |-> "obj", s |-> <<>>, items |-> members]
Member(k, v) == [t |-> "member", s |-> k, items |-> <<v>>]

----------------------------------------------------------------------------
\* JSON.parse over token texts: a single left-to-right pass that stops at the
\* first error.  err is "unterminated" when the input ends inside a string
\* (the engine's "Unterminated string in JSON"), "other" for every other
\* syntax error.

NumTok == {"12", "0"}
\* a signed or fractional number is one token
SignedOrFraction == {"-1", "1.5"}
Ok(v, p) == [ok |-> TRUE, err |-> "none", val |-> v, pos |-> p]
Err(kind) == [ok |-> FALSE, err |-> kind, val |-> Undefined, pos |-> 0]

RECURSIVE SkipWs(_, _)
SkipWs(s, i) == IF i <= Len(s) /\ s[i] = WS THEN SkipWs(s, i + 1) ELSE i

RECURSIVE NumEnd(_, _)
NumEnd(s, i) == IF i <= Len(s) /\ s[i] \in NumTok THEN NumEnd(s, i + 1) ELSE i

\* i is the position after the opening quote
ParseString(s, i) ==
    LET j == FirstIndex(s, Q, i)
    IN IF j = 0 THEN Err("unterminated") ELSE Ok(Str(SubSeq(s, i, j - 1)), j + 1)

RECURSIVE ParseValue(_, _)
RECURSIVE ParseElements(_, _, _)
RECURSIVE ParseMembers(_, _, _)

\* i is the position of the first token of the value (blanks already skipped)
ParseValue(s, i) ==
    IF i > Len(s) THEN Err("other")
    ELSE IF s[i] = Q THEN ParseString(s, i + 1)
    ELSE IF s[i] = "null" THEN Ok(Null, i + 1)
    ELSE IF s[i] \in NumTok THEN
        LET e == NumEnd(s, i)
        IN IF s[i] = "0" /\ e > i + 1 THEN Err("other") ELSE Ok(Num(SubSeq(s, i, e - 1)), e)
    ELSE IF s[i] \in SignedOrFraction THEN Ok(Num(<<s[i]>>), i + 1)
    ELSE IF s[i] = "[" THEN
        LET j == SkipWs(s, i + 1)
        IN IF j <= Len(s) /\ s[j] = "]" THEN Ok(Arr(<<>>), j + 1) ELSE ParseElements(s, j, <<>>)
    ELSE IF s[i] = "{" THEN
        LET j == SkipWs(s, i + 1)
        IN IF j <= Len(s) /\ s[j] = "}" THEN Ok(Obj(<<>>), j + 1) ELSE ParseMembers(s, j, <<>>)
    ELSE Err("other")

\* i is the position where the next array element has to start
ParseElements(s, i, acc) ==
    LET r == ParseValue(s, i)
        j == SkipWs(s, r.pos)
    IN IF ~r.ok THEN r
       ELSE IF j > Len(s) THEN Err("other")
       ELSE IF s[j] = "," THEN ParseElements(s, SkipWs(s, j + 1), Append(acc, r.val))
       ELSE IF s[j] = "]" THEN Ok(Arr(Append(acc, r.val)), j + 1)
       ELSE Err("other")

\* i is the position where the next "key": value has to start
ParseMembers(s, i, acc) ==
    IF i > Len(s) \/ s[i] # Q THEN Err("other")
    ELSE
        LET k == ParseString(s, i + 1)
            c == SkipWs(s, k.pos)
            r == ParseValue(s, SkipWs(s, c + 1))
            j == SkipWs(s, r.pos)
        IN IF ~k.ok THEN k
           ELSE IF c > Len(s) \/ s[c] # ":" THEN Err("other")
           ELSE IF ~r.ok THEN r
           ELSE IF j > Len(s) THEN Err("other")
           ELSE IF s[j] = "," THEN ParseMembers(s, SkipWs(s, j + 1), Append(acc, Member(k.val.s, r.val)))
           ELSE IF s[j] = "}" THEN Ok(Obj(Append(acc, Member(k.val.s, r.val))), j + 1)
           ELSE Err("other")

JsonParse(s) ==
    LET r == ParseValue(s, SkipWs(s, 1))
    IN IF ~r.ok THEN r
       ELSE IF SkipWs(s, r.pos) <= Len(s) THEN Err("other")
       ELSE r

\* JSON.stringify without indentation
RECURSIVE Stringify(_)
RECURSIVE StringifyList(_)
Stringify(v) ==
    CASE v.t = "null" -> <<"null">>
      [] v.t = "num" -> v.s
      [] v.t = "str" -> <<Q>> \o v.s \o <<Q>>
      [] v.t = "arr" -> <<"[">> \o StringifyList(v.items) \o <<"]">>
      [] v.t = "obj" -> <<"{">> \o StringifyList(v.items) \o <<"}">>
      [] v.t = "member" -> <<Q>> \o v.s \o <<Q, ":">> \o Stringify(v.items[1])
StringifyList(vs) ==
    IF vs = <<>> THEN <<>>
    ELSE IF Len(vs) = 1 THEN Stringify(vs[1])
    ELSE Stringify(vs[1]) \o <<",">> \o StringifyList(Tail(vs))

\* property read o[key] on a parsed value that is not null: the last member
\* of that name for an object, undefined otherwise
Get(o, key) ==
    IF o.t = "obj" /\ \E i \in 1..Len(o.items) : o.items[i].s = <<key>>
    THEN LET i == CHOOSE i \in 1..Len(o.items) :
                      o.items[i].s = <<key>> /\ \A j \in (i + 1)..Len(o.items) : o.items[j].s # <<key>>
         IN o.items[i].items[1]
    ELSE Undefined

\* JavaScript truthiness of a parsed value
Truthy(v) ==
    CASE v.t \in {"undefined", "null"} -> FALSE
      [] v.t = "num" -> v.s # <<"0">>
      [] v.t = "str" -> v.s # <<>>
      [] OTHER -> TRUE

----------------------------------------------------------------------------
\* AIReviewer: the reply parser

ReviewResult(file, severity, line, message, suggestion, category) ==
    [file |-> file, severity |-> severity, line |-> line, message |-> message,
     suggestion |-> suggestion, category |-> category]

Severities == {"error", "warning", "info"}

\* mutant: any string is taken as a severity
validateSeverity_AnyString(severity) ==
    IF severity.t = "str" /\ Len(severity.s) = 1 THEN severity.s[1] ELSE "info"

validateSeverity(severity) ==
    IF severity.t = "str" /\ severity.s \in {<<"error">>, <<"warning">>, <<"info">>}
    THEN severity.s[1]
    ELSE "info"

\* jsonText.match(/<open>\s*([\s\S]*?)\s*```/): the capture group, for the
\* first occurrence of the opening marker; matched is FALSE when no fence
\* closes it
FenceMatch(jsonText, open) ==
    LET i == CHOOSE i \in 1..Len(jsonText) :
                 OccursAt(jsonText, open, i) /\ \A j \in 1..(i - 1) : ~OccursAt(jsonText, open, j)
        a == SkipWs(jsonText, i + Len(open))
        c == FirstIndex(jsonText, FENCE, a)
    IN IF c = 0 THEN [matched |-> FALSE, group |-> <<>>]
       ELSE [matched |-> TRUE, group |-> TrimEnd(SubSeq(jsonText, a, c - 1))]

\* jsonText.match(/\{[\s\S]*\}/): from the first "{" to the last "}"
BraceMatch(jsonText) ==
    LET f == FirstIndex(jsonText, "{", 1)
        l == LastIndex(jsonText, "}")
    IN IF f = 0 \/ l < f THEN [matched |-> FALSE, group |-> <<>>]
       ELSE [matched |-> TRUE, group |-> SubSeq(jsonText, f, l)]

\* mutant: the object is searched for only when no fenced block was found
extractJSON_Cascade(response) ==
    LET t0 == Trim(response)
    IN IF Includes(t0, <<FENCE, "json">>) /\ FenceMatch(t0, <<FENCE, "json">>).matched
       THEN Trim(FenceMatch(t0, <<FENCE, "json">>).group)
       ELSE IF Includes(t0, <<FENCE>>) /\ FenceMatch(t0, <<FENCE>>).matched
       THEN Trim(FenceMatch(t0, <<FENCE>>).group)
       ELSE IF (t0 = <<>> \/ t0[1] # "{") /\ BraceMatch(t0).matched
       THEN Trim(BraceMatch(t0).group)
       ELSE t0

extractJSON(response) ==
    LET t0 == Trim(response)
        t1 == IF Includes(t0, <<FENCE, "json">>)
              THEN LET m == FenceMatch(t0, <<FENCE, "json">>) IN IF m.matched THEN m.group ELSE t0
              ELSE IF Includes(t0, <<FENCE>>)
              THEN LET m == FenceMatch(t0, <<FENCE>>) IN IF m.matched THEN m.group ELSE t0
              ELSE t0
        t2 == IF t1 = <<>> \/ t1[1] # "{"
              THEN LET m == BraceMatch(t1) IN IF m.matched THEN m.group ELSE t1
              ELSE t1
    IN Trim(t2)

\* mutant: the minimal document has no reviews list
EmptyReviews_NoList == <<"{", "}">>

EmptyReviews == <<"{", Q, "reviews", Q, ":", "[", "]", "}">>

\* mutant: no default document when no prefix parses
truncateToValidJSON_NoDefault(jsonText) ==
    LET cand == {i \in 1..Len(jsonText) :
                    jsonText[i] \in {"}", "]"} /\ JsonParse(Prefix(jsonText, i)).ok}
    IN IF cand = {} THEN jsonText
       ELSE Prefix(jsonText, CHOOSE i \in cand : \A j \in cand : j <= i)

\* mutant: a prefix is tried at every position, whatever its last character
truncateToValidJSON_AnyPrefix(jsonText) ==
    LET cand == {i \in 1..Len(jsonText) : JsonParse(Prefix(jsonText, i)).ok}
    IN IF cand = {} THEN EmptyReviews
       ELSE Prefix(jsonText, CHOOSE i \in cand : \A j \in cand : j <= i)

truncateToValidJSON(jsonText) ==
    LET cand == {i \in 1..Len(jsonText) :
                    jsonText[i] \in {"}", "]"} /\ JsonParse(Prefix(jsonText, i)).ok}
    IN IF cand = {} THEN EmptyReviews
       ELSE Prefix(jsonText, CHOOSE i \in cand : \A j \in cand : j <= i)

\* unterminatedWording: the engine's SyntaxError message for input that ends
\* inside a string contains "Unterminated string"
fixIncompleteJSON(jsonText, unterminatedWording) ==
    LET r == JsonParse(jsonText)
        lastQuoteIndex == LastIndex(jsonText, Q)
        afterLastQuote == Suffix(jsonText, lastQuoteIndex + 1)
        fixedJson == Prefix(jsonText, lastQuoteIndex) \o <<Q>> \o afterLastQuote
    IN IF r.ok THEN jsonText
       ELSE IF /\ r.err = "unterminated" /\ unterminatedWording
               /\ afterLastQuote # <<>>
               /\ ~Includes(afterLastQuote, <<Q>>)
               /\ (Includes(afterLastQuote, <<"}">>) \/ Includes(afterLastQuote, <<"]">>))
            THEN IF JsonParse(fixedJson).ok THEN fixedJson ELSE truncateToValidJSON(jsonText)
       ELSE truncateToValidJSON(jsonText)

MalformedMessage == Str(<<"AI analysis failed - model response was malformed">>)
NoDescription == Str(<<"No description">>)

\* the catch branch of parseAIResponse
ParseFallback(file) ==
    <<ReviewResult(file, "info", Undefined, MalformedMessage, Undefined, Str(<<"general">>))>>

MapReview(file, review) ==
    ReviewResult(file,
                 validateSeverity(Get(review, "severity")),
                 Get(review, "line"),
                 IF Truthy(Get(review, "message")) THEN Get(review, "message") ELSE NoDescription,
                 Get(review, "suggestion"),
                 Get(review, "category"))

\* mutant: a missing reviews field counts as an empty list
MapReviews_MissingIsEmpty(file, reviews) ==
    IF ~Truthy(reviews) THEN <<>>
    ELSE IF reviews.t # "arr" THEN ParseFallback(file)
    ELSE IF \E i \in 1..Len(reviews.items) : reviews.items[i].t = "null"
         THEN ParseFallback(file)
    ELSE [i \in 1..Len(reviews.items) |-> MapReview(file, reviews.items[i])]

\* parsed.reviews.map(...) with its guard; reviews is parsed.reviews
MapReviews(file, reviews) ==
    IF ~Truthy(reviews) \/ reviews.t # "arr" THEN ParseFallback(file)
    ELSE IF \E i \in 1..Len(reviews.items) : reviews.items[i].t = "null"
         THEN ParseFallback(file)                               \* review.severity throws TypeError
    ELSE [i \in 1..Len(reviews.items) |-> MapReview(file, reviews.items[i])]

\* the part of parseAIResponse after JSON.parse; p is its outcome
ParsedToResults(file, p) ==
    IF ~p.ok THEN ParseFallback(file)                           \* JSON.parse throws
    ELSE IF p.val.t = "null" THEN ParseFallback(file)           \* parsed.reviews throws TypeError
    ELSE MapReviews(file, Get(p.val, "reviews"))

parseAIResponse(file, response, unterminatedWording) ==
    ParsedToResults(file, JsonParse(fixIncompleteJSON(extractJSON(response), unterminatedWording)))

----------------------------------------------------------------------------
\* AIReviewer: eligibility and the per-file review

NoSize == -1     \* GitDiff.fileSize is undefined

\* JavaScript truthiness of an optional number
TruthyNum(n) == n # NoSize /\ n # 0

\* new RegExp(pattern).test(file) for a literal pattern: an unanchored search
RegExpTest(pattern, file) == Includes(file, pattern)

\* mutant: the include list is consulted before the exclude list
shouldSkipFile_IncludeFirst(diff, cfg) ==
    IF Len(cfg.includePatterns) > 0
    THEN ~(\E i \in 1..Len(cfg.includePatterns) : RegExpTest(cfg.includePatterns[i], diff.file))
    ELSE \E i \in 1..Len(cfg.excludePatterns) : RegExpTest(cfg.excludePatterns[i], diff.file)

shouldSkipFile(diff, cfg) ==
    IF \E i \in 1..Len(cfg.excludePatterns) : RegExpTest(cfg.excludePatterns[i], diff.file)
    THEN TRUE
    ELSE IF Len(cfg.includePatterns) > 0
    THEN ~(\E i \in 1..Len(cfg.includePatterns) : RegExpTest(cfg.includePatterns[i], diff.file))
    ELSE FALSE

\* the size condition of reviewSingleFile and of the CLI loop
TooLarge(diff, cfg) ==
    TruthyNum(cfg.maxFileSize) /\ TruthyNum(diff.fileSize) /\ diff.fileSize > cfg.maxFileSize

TooLargeFinding(diff, cfg) ==
    ReviewResult(diff.file, "warning", Undefined,
                 Str(<<"File too large for analysis (", ToString(diff.fileSize), " bytes, limit: ",
                       ToString(cfg.maxFileSize), " bytes)">>),
                 Undefined, Undefined)

BinaryFinding(diff) ==
    ReviewResult(diff.file, "info", Undefined, Str(<<"Binary file skipped">>), Undefined, Undefined)

\* what reviewSingleFile does before any request: the first applicable branch
SingleFileBranch(diff, cfg) ==
    IF TooLarge(diff, cfg) THEN "skip-too-large"
    ELSE IF diff.isBinary THEN "skip-binary"
    ELSE "analyze"

\* the decision reviewChanges takes for one record
Decision(diff, cfg) ==
    IF shouldSkipFile(diff, cfg) THEN "skip-pattern" ELSE SingleFileBranch(diff, cfg)

\* the condition of the CLI loop's `continue`
CliSkips(diff, cfg) == diff.isBinary \/ TooLarge(diff, cfg)

TimeoutMessage == <<"Timeout when calling AI model">>

\* JavaScript's `n || d` for a number
OrDefault(n, d) == IF TruthyNum(n) THEN n ELSE d

Min(a, b) == IF a <= b THEN a ELSE b

ResponseCap == 2048          \* Math.min(..., 2048)
FallbackMaxTokens == 2048    \* maxTokens || 2048
FallbackTimeout == 30000     \* timeout || 30000
FallbackProbeTimeout == 5000 \* timeout || 5000

\* the axios.post of reviewSingleFile: body options and request timeout
GenerateRequest(diff, cfg) ==
    [kind |-> "generate", file |-> diff.file, model |-> cfg.modelName,
     temperature |-> cfg.temperature,
     num_predict |-> Min(OrDefault(cfg.maxTokens, FallbackMaxTokens), ResponseCap),
     timeout |-> OrDefault(cfg.timeout, FallbackTimeout)]

\* the axios.get of checkHealth
TagsRequest(cfg) ==
    [kind |-> "tags", file |-> <<>>, model |-> <<>>, temperature |-> "", num_predict |-> 0,
     timeout |-> OrDefault(cfg.timeout, FallbackProbeTimeout)]

\* mutant: the transport error is rethrown as it is
ThrownMessage_Transport(failure) == failure.message

\* the error reviewSingleFile throws for a failed request
ThrownMessage(failure) ==
    IF failure.code = "ECONNABORTED" THEN TimeoutMessage ELSE failure.message

\* the catch branch of reviewChanges
ErrorFinding(diff, failure) ==
    ReviewResult(diff.file, "error", Undefined,
                 Str(<<"Failed to analyze file: ">> \o ThrownMessage(failure)),
                 Undefined, Undefined)

----------------------------------------------------------------------------
\* AIReviewer: the health probe

\* modelName.split(':')[0]
BaseName(modelName) ==
    IF FirstIndex(modelName, ":", 1) = 0 THEN modelName
    ELSE Prefix(modelName, FirstIndex(modelName, ":", 1) - 1)

\* mutant: the base name must open the listed name
RECURSIVE SomeModel_Prefix(_, _)
SomeModel_Prefix(models, base) ==
    IF models = <<>> THEN "none"
    ELSE IF Head(models).t \in {"null", "undefined"} THEN "throws"
    ELSE IF Get(Head(models), "name").t # "str" THEN "throws"
    ELSE IF OccursAt(Get(Head(models), "name").s, base, 1) THEN "found"
    ELSE SomeModel_Prefix(Tail(models), base)

\* models.some(model => model.name.includes(base)): "found", "none", or
\* "throws" when an entry reached before a match has no string name
RECURSIVE SomeModel(_, _)
SomeModel(models, base) ==
    IF models = <<>> THEN "none"
    ELSE IF Head(models).t \in {"null", "undefined"} THEN "throws"
    ELSE IF Get(Head(models), "name").t # "str" THEN "throws"
    ELSE IF Includes(Get(Head(models), "name").s, base) THEN "found"
    ELSE SomeModel(Tail(models), base)

\* models.map(m => m.name).join(', ')
RECURSIVE JoinNames(_)
JoinNames(models) ==
    IF models = <<>> THEN <<>>
    ELSE Get(Head(models), "name").s
         \o (IF Len(models) > 1 THEN <<",", WS>> ELSE <<>>) \o JoinNames(Tail(models))

HealthCheck(isHealthy, error) == [isHealthy |-> isHealthy, error |-> error]
Healthy == HealthCheck(TRUE, Undefined)
Unavailable(message) == HealthCheck(FALSE, Str(<<"Ollama server unavailable: ">> \o message))
NotFound(modelName, models) ==
    HealthCheck(FALSE, Str(<<"Model ">> \o modelName \o <<" not found. Available models: ">>
                           \o JoinNames(models)))
TypeErrorMessage == <<"TypeError">>

\* how the try block of checkHealth ends: it returns value, or throws an error with message
Returned(value) == [thrown |-> FALSE, message |-> <<>>, value |-> value]
Thrown(message) == [thrown |-> TRUE, message |-> message, value |-> Healthy]

\* `response.data.models || []`, then some(...); models is the value of response.data.models
ModelsVerdict(modelName, models) ==
    IF ~Truthy(models) THEN Returned(NotFound(modelName, <<>>))
    ELSE IF models.t # "arr" THEN Thrown(TypeErrorMessage)
    ELSE IF SomeModel(models.items, BaseName(modelName)) = "throws" THEN Thrown(TypeErrorMessage)
    ELSE IF SomeModel(models.items, BaseName(modelName)) = "found" THEN Returned(Healthy)
    ELSE Returned(NotFound(modelName, models.items))

\* the try block of checkHealth
TryCheckHealth(cfg, outcome) ==
    IF ~outcome.answers THEN Thrown(outcome.message)
    ELSE IF outcome.data.t \in {"null", "undefined"} THEN Thrown(TypeErrorMessage)
    ELSE ModelsVerdict(cfg.modelName, Get(outcome.data, "models"))

\* the catch block of checkHealth
CatchCheckHealth(try) == IF try.thrown THEN Unavailable(try.message) ELSE try.value

\* what the caller gets when the error leaves the function
Raised == [raised |-> TRUE]

\* mutant: the error of the try block is not caught
checkHealth_Uncaught(cfg, outcome) ==
    IF TryCheckHealth(cfg, outcome).thrown THEN Raised ELSE TryCheckHealth(cfg, outcome).value

checkHealth(cfg, outcome) == CatchCheckHealth(TryCheckHealth(cfg, outcome))

----------------------------------------------------------------------------
\* GitAnalyzer: one change record from one file's diff text

NL == "\n"
IsBlank(tok) == tok \in {WS, NL}

\* String.prototype.startsWith at token granularity
StartsWith(line, t) == OccursAt(line, t, 1)

\* the diff text whose split('\n') gives lines
RECURSIVE JoinLines(_)
JoinLines(lines) ==
    IF lines = <<>> THEN <<>>
    ELSE IF Len(lines) = 1 THEN Head(lines)
    ELSE Head(lines) \o <<NL>> \o JoinLines(Tail(lines))

\* !diffText.trim()
IsEmptyText(lines) == \A i \in 1..Len(JoinLines(lines)) : IsBlank(JoinLines(lines)[i])

\* mutant: the file header lines are counted too
RECURSIVE CountLines_WithHeaders(_, _)
CountLines_WithHeaders(lines, sign) ==
    IF lines = <<>> THEN 0
    ELSE (IF StartsWith(Head(lines), <<sign>>) THEN 1 ELSE 0) + CountLines_WithHeaders(Tail(lines), sign)

\* the for loop: `if (line.startsWith(sign) && !line.startsWith(sign sign sign)) count++`
RECURSIVE CountLines(_, _)
CountLines(lines, sign) ==
    IF lines = <<>> THEN 0
    ELSE (IF StartsWith(Head(lines), <<sign>>) /\ ~StartsWith(Head(lines), <<sign, sign, sign>>)
          THEN 1 ELSE 0) + CountLines(Tail(lines), sign)

\* lines.some(line => line.startsWith(marker))
SomeLine(lines, marker) == \E i \in 1..Len(lines) : StartsWith(lines[i], <<marker>>)

NoStats == [given |-> FALSE, additions |-> 0, deletions |-> 0, isNew |-> FALSE, isDeleted |-> FALSE]

\* getCommitDiff: the stats argument made from an entry of diffSummary.files
StatsOf(fileStats) ==
    [given |-> TRUE,
     additions |-> OrDefault(fileStats.insertions, 0),
     deletions |-> OrDefault(fileStats.deletions, 0),
     isNew |-> OrDefault(fileStats.insertions, 0) > 0 /\ OrDefault(fileStats.deletions, 0) = 0,
     isDeleted |-> OrDefault(fileStats.insertions, 0) = 0 /\ OrDefault(fileStats.deletions, 0) > 0]

\* fs.existsSync(fullPath) && !isDeleted ? fs.statSync(fullPath).size : undefined
FileSizeOf(onDisk, isDeleted) == IF onDisk # NoSize /\ ~isDeleted THEN onDisk ELSE NoSize

ChangeRecord(file, additions, deletions, isNew, isDeleted, isBinary, fileSize) ==
    [file |-> file, additions |-> additions, deletions |-> deletions, isNew |-> isNew,
     isDeleted |-> isDeleted, isBinary |-> isBinary, fileSize |-> fileSize]

\* parseSingleFileDiff for a non-empty text
parseSingleFileDiff(fileName, lines, stats, onDisk) ==
    ChangeRecord(fileName,
                 IF stats.given THEN stats.additions ELSE CountLines(lines, "+"),
                 IF stats.given THEN stats.deletions ELSE CountLines(lines, "-"),
                 IF stats.given THEN stats.isNew ELSE SomeLine(lines, "new file mode"),
                 IF stats.given THEN stats.isDeleted ELSE SomeLine(lines, "deleted file mode"),
                 Includes(JoinLines(lines), <<"Binary files">>) \/ Includes(JoinLines(lines), <<"differ">>),
                 FileSizeOf(onDisk, IF stats.given THEN stats.isDeleted
                                    ELSE SomeLine(lines, "deleted file mode")))

AddedHeader == <<"+", "+", "+", WS, "b/f">>
RemovedHeader == <<"-", "-", "-", WS, "a/f">>
BinaryNotice == <<"Binary files", WS, "a/f", WS, "and", WS, "b/f", WS, "differ">>

\* the entry of diffSummary.files git makes for a diff text: a text file carries
\* the numbers of its added and removed lines, a binary file carries neither
FileStatsOf(lines) ==
    IF \E i \in 1..Len(lines) : lines[i] = BinaryNotice
    THEN [insertions |-> NoSize, deletions |-> NoSize]
    ELSE [insertions |-> Cardinality({i \in 1..Len(lines) :
                             StartsWith(lines[i], <<"+">>) /\ lines[i] # AddedHeader}),
          deletions |-> Cardinality({i \in 1..Len(lines) :
                             StartsWith(lines[i], <<"-">>) /\ lines[i] # RemovedHeader})]

\* the loop body of the getters after the diff text was read:
\* `const parsed = await this.parseSingleFileDiff(...); if (parsed) diffs.push(parsed)`
PushParsed(acc, r, gitMode) ==
    IF IsEmptyText(r.lines) THEN acc
    ELSE Append(acc, parseSingleFileDiff(r.file, r.lines,
                         IF gitMode = "commit" THEN StatsOf(r.fileStats) ELSE NoStats,
                         r.onDisk))

\* a call of simple-git: checkIsRepo, status, diffSummary, or diff for one file
GitCall(op, file) == [op |-> op, file |-> file]

\* the call that lists the changed files: git.status() or git.diffSummary(...)
ListCall(gitMode) == GitCall(IF gitMode = "commit" THEN "diffSummary" ELSE "status", <<>>)

\* the position of the getter's for-of loop in the listed files (1-based)
FileIdx(calls) == 1 + Cardinality({k \in 1..Len(calls) : calls[k].op = "diff"})

----------------------------------------------------------------------------
\* The CLI's displayResults

SeverityOrder(sev) == CASE sev = "error" -> 0 [] sev = "warning" -> 1 [] sev = "info" -> 2 [] OTHER -> 3

\* paths that are array indices (canonical decimal numbers) and their values
IndexValue(path) ==
    IF path = <<"2">> THEN 2 ELSE IF path = <<"10">> THEN 10 ELSE -1
IsIndex(path) == IndexValue(path) >= 0

RECURSIVE Ascending(_)
Ascending(S) ==
    IF S = {} THEN <<>>
    ELSE LET least == CHOOSE p \in S : \A q \in S : IndexValue(p) <= IndexValue(q)
         IN <<least>> \o Ascending(S \ {least})

RECURSIVE NonIndexKeys(_)
NonIndexKeys(keys) ==
    IF keys = <<>> THEN <<>>
    ELSE (IF IsIndex(Head(keys)) THEN <<>> ELSE <<Head(keys)>>) \o NonIndexKeys(Tail(keys))

\* Object.entries(grouped): the keys that are array indices in ascending
\* numeric order, then the other keys in the order they were created
EntriesOrder(keys) ==
    Ascending({keys[i] : i \in {j \in 1..Len(keys) : IsIndex(keys[j])}}) \o NonIndexKeys(keys)

\* the keys of groupByFile's object in the order they were created
RECURSIVE GroupKeys(_, _)
GroupKeys(rs, seen) ==
    IF rs = <<>> THEN seen
    ELSE IF \E i \in 1..Len(seen) : seen[i] = Head(rs).file
         THEN GroupKeys(Tail(rs), seen)
         ELSE GroupKeys(Tail(rs), Append(seen, Head(rs).file))

RECURSIVE SelectSeq2(_, _, _)
SelectSeq2(rs, file, rank) ==
    IF rs = <<>> THEN <<>>
    ELSE IF Head(rs).file = file /\ SeverityOrder(Head(rs).severity) = rank
         THEN <<Head(rs)>> \o SelectSeq2(Tail(rs), file, rank)
         ELSE SelectSeq2(Tail(rs), file, rank)

\* one group, sorted by severity rank with a stable sort
SortedGroup(rs, file) ==
    SelectSeq2(rs, file, 0) \o SelectSeq2(rs, file, 1) \o SelectSeq2(rs, file, 2) \o SelectSeq2(rs, file, 3)

\* the findings in the order displayResults prints them
displayResults(rs) ==
    LET keys == EntriesOrder(GroupKeys(rs, <<>>))
    IN Flatten([i \in 1..Len(keys) |-> SortedGroup(rs, keys[i])])

\* getSummary: the count per severity, as the reduce builds it
CountOf(rs, sev) == Cardinality({i \in 1..Len(rs) : rs[i].severity = sev})

\* `if (counts.error) parts.push(...)`: a part for a count that is not zero
SummaryPart(n, label) == IF n # 0 THEN <<[count |-> n, label |-> label]>> ELSE <<>>

NoIssues == <<[count |-> 0, label |-> "no issues"]>>

\* the parts getSummary joins, in order; 'no issues' when there is none
getSummary(rs) ==
    IF SummaryPart(CountOf(rs, "error"), "errors") \o SummaryPart(CountOf(rs, "warning"), "warnings")
           \o SummaryPart(CountOf(rs, "info"), "info") # <<>>
    THEN SummaryPart(CountOf(rs, "error"), "errors") \o SummaryPart(CountOf(rs, "warning"), "warnings")
           \o SummaryPart(CountOf(rs, "info"), "info")
    ELSE NoIssues

\* mutant: only the first result is looked at
hasErrors_First(rs) == rs # <<>> /\ rs[1].severity = "error"

\* results.some(r => r.severity === 'error')
hasErrors(rs) == \E i \in 1..Len(rs) : rs[i].severity = "error"

\* displayResults as a whole: nothing but a message for an empty list;
\* otherwise the groups, the summary, and process.exitCode = 1 when there are errors
DisplayAll(rs) ==
    IF rs = <<>>
    THEN UNCHANGED <<report, summary, exitCode>>
    ELSE /\ report' = displayResults(rs)
         /\ summary' = <<getSummary(rs)>>
         /\ exitCode' = IF hasErrors(rs) THEN 1 ELSE exitCode

----------------------------------------------------------------------------
\* Inputs

Paths == {<<"src/", "a", ".ts">>, <<"dist/", "b", ".ts">>, <<"c", ".md">>}
Sizes == {NoSize, 400, 600}
GitDiffs == [file : Paths, isBinary : BOOLEAN, fileSize : Sizes]

\* DEFAULT_CONFIG's values for the model service
DefaultModelName == <<"codellama", ":", "7b-instruct">>
DefaultMaxTokens == 2048
DefaultTemperature == "0.1"
DefaultTimeout == 120000

Configs == [includePatterns : {<<>>, <<<<".ts">>>>},
            excludePatterns : {<<>>, <<<<"dist/">>>>},
            maxFileSize : {0, 500},
            quiet : BOOLEAN,
            modelName : {DefaultModelName},
            maxTokens : {DefaultMaxTokens},
            temperature : {DefaultTemperature},
            timeout : {DefaultTimeout}]

\* commander's options for the flags given: --no-health-check is a negatable
\* boolean option, stored under the name healthCheck (true unless the flag is given)
ParseOptions(noHealthCheckFlag) == [healthCheck |-> ~noHealthCheckFlag]

\* the property read options.noHealthCheck, undefined (falsy) when the object has no such property
NoHealthCheckOption(opts) ==
    IF "noHealthCheck" \in DOMAIN opts THEN opts.noHealthCheck ELSE FALSE

\* outcomes of the model-listing request: the service answers with response.data, or axios rejects
Answer(data) == [answers |-> TRUE, data |-> data, message |-> <<>>]
Reject(message) == [answers |-> FALSE, data |-> Undefined, message |-> message]
NoProbe == Reject(<<>>)

\* no repository under analysis
NoRepo == [isRepo |-> FALSE, listable |-> FALSE, gitMode |-> "working-tree", files |-> <<>>]

\* no file under extraction
NoRaw == [file |-> <<>>, gitMode |-> "working-tree", lines |-> <<>>,
          fileStats |-> [insertions |-> NoSize, deletions |-> NoSize], onDisk |-> NoSize]

\* lists of at most n change records with pairwise different paths
RECURSIVE DiffLists(_)
DiffLists(n) ==
    IF n = 0 THEN {<<>>}
    ELSE LET shorter == DiffLists(n - 1)
             longer == {Append(l, d) : l \in {x \in shorter : Len(x) = n - 1}, d \in GitDiffs}
         IN shorter \cup {l \in longer : \A i \in 1..(Len(l) - 1) : l[i].file # l[Len(l)].file}

Failures == {[code |-> "ECONNABORTED", message |-> <<"timeout of 120000ms exceeded">>],
             [code |-> "ECONNREFUSED", message |-> <<"connect ECONNREFUSED 127.0.0.1:11434">>]}

\* texts of reviews documents
Entry(severity, message) ==
    Obj(<<Member(<<"severity">>, Str(<<severity>>)), Member(<<"message">>, Str(<<message>>))>>)
ReviewsDoc(entries) == Stringify(Obj(<<Member(<<"reviews">>, Arr(entries))>>))

\* the replies the model service gives in a run
RunReplies ==
    {ReviewsDoc(<<Entry("error", "x")>>),
     ReviewsDoc(<<Entry("critical", "x"), Entry("warning", "y")>>),
     ReviewsDoc(<<Obj(<<Member(<<"message">>, Str(<<"x">>))>>),
                  Obj(<<Member(<<"severity">>, Num(<<"12">>)), Member(<<"message">>, Str(<<"y">>))>>)>>),
     EmptyReviews,
     <<"prose">>,
     Prefix(ReviewsDoc(<<Entry("warning", "ab")>>), 22),
     <<"{", "}">>}

----------------------------------------------------------------------------
\* The review run

\* kind: what happened to the record; code, text: the failure's code and message, or the reply text;
\* added: the findings the record added to results
LogEntry(file, kind, code, text, added) ==
    [file |-> file, kind |-> kind, code |-> code, text |-> text, added |-> added]

InLoop == pc = "loop" /\ idx <= Len(diffs)
Current == diffs[idx]

InitRun(m) ==
    /\ mode = m
    /\ config \in Configs
    /\ diffs \in DiffLists(MaxFiles)
    /\ idx = 1
    /\ results = <<>>
    /\ requests = <<>>
    /\ log = <<>>
    /\ pc = "loop"
    /\ report = <<>>
    /\ exitCode = 0
    /\ engine \in BOOLEAN
    /\ reply = <<>>
    /\ parsed = <<>>
    /\ options = ParseOptions(FALSE)
    /\ probe = NoProbe
    /\ health = <<>>
    /\ raw = NoRaw
    /\ summary = <<>>
    /\ repo = NoRepo
    /\ git = <<>>
    /\ extracted = <<>>
    /\ fixed = <<>>

\* CLI loop: `if (diff.isBinary || (maxFileSize && fileSize && fileSize > maxFileSize)) continue`
CliSkip ==
    /\ mode = "cli" /\ InLoop
    /\ CliSkips(Current, config)
    /\ idx' = idx + 1
    /\ log' = Append(log, LogEntry(Current.file, "cli-skip", "", <<>>, <<>>))
    /\ UNCHANGED <<mode, config, diffs, results, requests, pc, report, exitCode, engine, reply, parsed, options, probe, health, raw, summary, repo, git, extracted, fixed>>

\* the record reaches reviewChanges
Reviewed == InLoop /\ (mode = "cli" => ~CliSkips(Current, config))

\* mutant: a record skipped by a pattern rule is reported like the other skips
PatternSkip_Reported ==
    /\ Reviewed
    /\ shouldSkipFile(Current, config)
    /\ results' = Append(results, BinaryFinding(Current))
    /\ idx' = idx + 1
    /\ log' = Append(log, LogEntry(Current.file, "skip-pattern", "", <<>>, <<>>))
    /\ UNCHANGED <<mode, config, diffs, requests, pc, report, exitCode, engine, reply, parsed, options, probe, health, raw, summary, repo, git, extracted, fixed>>

\* reviewChanges: `if (this.shouldSkipFile(diff)) continue`
PatternSkip ==
    /\ Reviewed
    /\ shouldSkipFile(Current, config)
    /\ idx' = idx + 1
    /\ log' = Append(log, LogEntry(Current.file, "skip-pattern", "", <<>>, <<>>))
    /\ UNCHANGED <<mode, config, diffs, results, requests, pc, report, exitCode, engine, reply, parsed, options, probe, health, raw, summary, repo, git, extracted, fixed>>

\* reviewSingleFile returns the size warning
TooLargeSkip ==
    /\ Reviewed
    /\ Decision(Current, config) = "skip-too-large"
    /\ results' = Append(results, TooLargeFinding(Current, config))
    /\ idx' = idx + 1
    /\ log' = Append(log, LogEntry(Current.file, "skip-too-large", "", <<>>, <<TooLargeFinding(Current, config)>>))
    /\ UNCHANGED <<mode, config, diffs, requests, pc, report, exitCode, engine, reply, parsed, options, probe, health, raw, summary, repo, git, extracted, fixed>>

\* reviewSingleFile returns the binary notice
BinarySkip ==
    /\ Reviewed
    /\ Decision(Current, config) = "skip-binary"
    /\ results' = Append(results, BinaryFinding(Current))
    /\ idx' = idx + 1
    /\ log' = Append(log, LogEntry(Current.file, "skip-binary", "", <<>>, <<BinaryFinding(Current)>>))
    /\ UNCHANGED <<mode, config, diffs, requests, pc, report, exitCode, engine, reply, parsed, options, probe, health, raw, summary, repo, git, extracted, fixed>>

\* reviewSingleFile issues axios.post and awaits it
SendRequest ==
    /\ Reviewed
    /\ Decision(Current, config) = "analyze"
    /\ requests' = Append(requests, GenerateRequest(Current, config))
    /\ pc' = "await"
    /\ UNCHANGED <<mode, config, diffs, idx, results, log, report, exitCode, engine, reply, parsed, options, probe, health, raw, summary, repo, git, extracted, fixed>>

\* the request resolves with reply r: parseAIResponse gave review, results.push(...review)
Receive(r, review) ==
    /\ results' = results \o review
    /\ log' = Append(log, LogEntry(Current.file, "reply", "", r, review))

ReceiveReply ==
    /\ pc = "await"
    /\ \E r \in RunReplies : Receive(r, parseAIResponse(Current.file, r, engine))
    /\ idx' = idx + 1
    /\ pc' = "loop"
    /\ UNCHANGED <<mode, config, diffs, requests, report, exitCode, engine, reply, parsed, options, probe, health, raw, summary, repo, git, extracted, fixed>>

\* mutant: the catch branch of reviewChanges pushes no result
RequestFails_Swallowed ==
    /\ pc = "await"
    /\ \E f \in Failures :
          log' = Append(log, LogEntry(Current.file, "failed", f.code, f.message, <<>>))
    /\ idx' = idx + 1
    /\ pc' = "loop"
    /\ UNCHANGED <<mode, config, diffs, results, requests, report, exitCode, engine, reply, parsed, options, probe, health, raw, summary, repo, git, extracted, fixed>>

\* mutant: the failed request is issued again
RequestFails_Retry ==
    /\ pc = "await"
    /\ \E f \in Failures :
          /\ results' = Append(results, ErrorFinding(Current, f))
          /\ log' = Append(log, LogEntry(Current.file, "failed", f.code, f.message, <<ErrorFinding(Current, f)>>))
    /\ pc' = "loop"
    /\ UNCHANGED <<mode, config, diffs, idx, requests, report, exitCode, engine, reply, parsed, options, probe, health, raw, summary, repo, git, extracted, fixed>>

\* the request rejects: reviewSingleFile rethrows, reviewChanges pushes the error result
RequestFails ==
    /\ pc = "await"
    /\ \E f \in Failures :
          /\ results' = Append(results, ErrorFinding(Current, f))
          /\ log' = Append(log, LogEntry(Current.file, "failed", f.code, f.message, <<ErrorFinding(Current, f)>>))
    /\ idx' = idx + 1
    /\ pc' = "loop"
    /\ UNCHANGED <<mode, config, diffs, requests, report, exitCode, engine, reply, parsed, options, probe, health, raw, summary, repo, git, extracted, fixed>>

\* CLI: `if (diffs.length === 0) return`
NoChanges ==
    /\ mode = "cli" /\ pc = "loop" /\ Len(diffs) = 0
    /\ pc' = "done"
    /\ UNCHANGED <<mode, config, diffs, idx, results, requests, log, report, exitCode, engine, reply, parsed, options, probe, health, raw, summary, repo, git, extracted, fixed>>

\* CLI: the loop is over, displayResults(results, quiet)
Display ==
    /\ mode = "cli" /\ pc = "loop" /\ Len(diffs) > 0 /\ idx > Len(diffs)
    /\ DisplayAll(results)
    /\ pc' = "done"
    /\ UNCHANGED <<mode, config, diffs, idx, results, requests, log, engine, reply, parsed, options, probe, health, raw, repo, git, extracted, fixed>>

\* reviewChanges returns results
Return ==
    /\ mode = "api" /\ pc = "loop" /\ idx > Len(diffs)
    /\ pc' = "done"
    /\ UNCHANGED <<mode, config, diffs, idx, results, requests, log, report, exitCode, engine, reply, parsed, options, probe, health, raw, summary, repo, git, extracted, fixed>>

Init == InitRun("cli")
Next == CliSkip \/ PatternSkip \/ SendRequest \/ ReceiveReply \/ RequestFails \/ NoChanges \/ Display
Spec == Init /\ [][Next]_vars

InitApi == InitRun("api")
NextApi == PatternSkip \/ TooLargeSkip \/ BinarySkip \/ SendRequest \/ ReceiveReply \/ RequestFails \/ Return
ReviewerSpec == InitApi /\ [][NextApi]_vars

----------------------------------------------------------------------------
\* The reply parser alone: parseAIResponse applied to one reply text

ReplyFile == <<"src/", "a", ".ts">>

\* an entry of a reviews document; a member whose value is Undefined is left out
MemberIf(k, v) == IF v = Undefined THEN <<>> ELSE <<Member(<<k>>, v)>>
MakeEntry(severity, line, message, suggestion, category) ==
    Obj(MemberIf("severity", severity) \o MemberIf("line", line) \o MemberIf("message", message)
        \o MemberIf("suggestion", suggestion) \o MemberIf("category", category))

\* entries with a severity of the enum and a non-empty message, free of code fences
PlainEntries ==
    {MakeEntry(Str(<<"error">>), Undefined, Str(<<"x">>), Undefined, Undefined),
     MakeEntry(Str(<<"warning">>), Num(<<"12">>), Str(<<"y">>), Str(<<"fix">>), Str(<<"bugs">>)),
     MakeEntry(Str(<<"info">>), Null, Str(<<"}", "]", "}", "a">>), Undefined, Str(<<"style">>))}

\* entries with a severity of the enum and a non-empty message that holds code fences
FencedEntries ==
    {MakeEntry(Str(<<"warning">>), Undefined, Str(<<FENCE, "12", FENCE>>), Undefined, Undefined),
     MakeEntry(Str(<<"error">>), Undefined, Str(<<"use", FENCE, "x">>), Undefined, Undefined)}

\* entries outside the severity enum or without message text
OddEntries ==
    {MakeEntry(Str(<<"critical">>), Undefined, Str(<<"x">>), Undefined, Undefined),
     MakeEntry(Undefined, Undefined, Str(<<"x">>), Undefined, Undefined),
     MakeEntry(Num(<<"12">>), Undefined, Str(<<"x">>), Undefined, Undefined),
     MakeEntry(Str(<<"error">>), Num(<<"0">>), Undefined, Undefined, Undefined),
     MakeEntry(Str(<<"warning">>), Undefined, Str(<<>>), Undefined, Undefined)}

GoodEntries == PlainEntries \cup FencedEntries
Entries == GoodEntries \cup OddEntries

\* lists of at most n elements of S
RECURSIVE Lists(_, _)
Lists(S, n) ==
    IF n = 0 THEN {<<>>}
    ELSE LET shorter == Lists(S, n - 1)
         IN shorter \cup {Append(l, e) : l \in {x \in shorter : Len(x) = n - 1}, e \in S}

EntryLists == Lists(Entries, MaxEntries)
GoodEntryLists == Lists(GoodEntries, MaxEntries)
DocTexts == {ReviewsDoc(es) : es \in EntryLists}

ProperPrefixes(t) == {Prefix(t, n) : n \in 0..(Len(t) - 1)}
CutDocs == UNION {ProperPrefixes(t) : t \in DocTexts}

\* documents that parse but hold no list of entries, or entries that are not objects
SchemaTexts ==
    {Stringify(v) : v \in
        {Obj(<<>>), Null, Num(<<"12">>), Arr(<<>>), Str(<<"x">>),
         Obj(<<Member(<<"reviews">>, Null)>>),
         Obj(<<Member(<<"reviews">>, Obj(<<>>))>>),
         Obj(<<Member(<<"reviews">>, Str(<<"x">>))>>),
         Obj(<<Member(<<"reviews">>, Num(<<"0">>))>>),
         Obj(<<Member(<<"other">>, Arr(<<>>))>>),
         Obj(<<Member(<<"reviews">>, Arr(<<>>)), Member(<<"reviews">>, Null)>>),
         Obj(<<Member(<<"reviews">>, Arr(<<Null>>))>>),
         Obj(<<Member(<<"reviews">>, Arr(<<Str(<<"x">>), Num(<<"12">>)>>))>>)}}

\* a document inside prose, blanks or a fenced block
SmallDocs == {ReviewsDoc(es) : es \in Lists(Entries, 1)} \cup SchemaTexts
Wrap(t) ==
    {<<WS>> \o t \o <<WS>>,
     <<"prose", WS>> \o t,
     t \o <<WS, "prose">>,
     <<"prose", WS>> \o t \o <<WS, "prose", "}">>,
     <<FENCE, "json", WS>> \o t \o <<WS, FENCE>>,
     <<"prose", FENCE, "json">> \o t \o <<FENCE, "prose">>,
     <<FENCE, WS>> \o t \o <<FENCE>>,
     <<FENCE, "json", WS>> \o t,
     <<"prose", FENCE>> \o t \o <<FENCE, WS, FENCE, "json">> \o t \o <<FENCE>>,
     <<FENCE, "json", WS, "Here", ":", WS>> \o t \o <<WS, FENCE>>,
     <<FENCE, WS, FENCE, "json">> \o t}
WrappedTexts == UNION {Wrap(t) : t \in SmallDocs}

\* every text of at most n tokens
ShortTokens == {"{", "}", "[", "]", Q, ":", ",", WS, "null", "12", "x", FENCE}
ShortTexts == UNION {[1..n -> ShortTokens] : n \in 0..MaxShort}

\* a document that lacks only the closing quote of its last string
Unclosed(t) == Prefix(t, LastIndex(t, Q) - 1) \o Suffix(t, LastIndex(t, Q) + 1)
UnclosedDocs == {Unclosed(ReviewsDoc(es)) : es \in Lists(PlainEntries, MaxEntries) \ {<<>>}}

\* documents whose list holds a null beside an entry, or an entry whose
\* message or line is of another type than the model was asked for
MixedDocs ==
    {ReviewsDoc(l) : l \in
        {<<Null, MakeEntry(Str(<<"error">>), Undefined, Str(<<"x">>), Undefined, Undefined)>>,
         <<MakeEntry(Str(<<"error">>), Undefined, Str(<<"x">>), Undefined, Undefined), Null>>,
         <<MakeEntry(Str(<<"warning">>), Undefined, Num(<<"12">>), Undefined, Undefined)>>,
         <<MakeEntry(Str(<<"warning">>), Str(<<"12">>), Str(<<"x">>), Undefined, Undefined)>>,
         <<MakeEntry(Str(<<"info">>), Num(<<"-1">>), Str(<<"x">>), Undefined, Undefined)>>,
         <<MakeEntry(Str(<<"info">>), Num(<<"1.5">>), Str(<<"x">>), Undefined, Undefined)>>}}

Replies ==
    DocTexts \cup CutDocs \cup SchemaTexts \cup WrappedTexts \cup ShortTexts \cup UnclosedDocs \cup MixedDocs

ParserInit ==
    /\ mode = "parser"
    /\ config = [includePatterns |-> <<>>, excludePatterns |-> <<>>, maxFileSize |-> 0, quiet |-> FALSE]
    /\ diffs = <<>>
    /\ idx = 1
    /\ results = <<>>
    /\ requests = <<>>
    /\ log = <<>>
    /\ pc = "parse"
    /\ report = <<>>
    /\ exitCode = 0
    /\ engine \in BOOLEAN
    /\ reply \in Replies
    /\ parsed = <<>>
    /\ options = ParseOptions(FALSE)
    /\ probe = NoProbe
    /\ health = <<>>
    /\ raw = NoRaw
    /\ summary = <<>>
    /\ repo = NoRepo
    /\ git = <<>>
    /\ extracted = <<>>
    /\ fixed = <<>>

\* return this.parseAIResponse(diff.file, response.data.response), step by
\* step: the extracted text, the text handed to JSON.parse, the findings
ParseReply ==
    /\ mode = "parser" /\ pc = "parse"
    /\ extracted' = extractJSON(reply)
    /\ fixed' = fixIncompleteJSON(extracted', engine)
    /\ parsed' = <<ParsedToResults(ReplyFile, JsonParse(fixed'))>>
    /\ pc' = "parsed"
    /\ UNCHANGED <<mode, config, diffs, idx, results, requests, log, report, exitCode, engine, reply, options, probe, health, raw, summary, repo, git>>

ParserNext == ParseReply
ParserSpec == ParserInit /\ [][ParserNext]_vars

----------------------------------------------------------------------------
\* The health probe alone: checkHealth called once

ModelNames == {DefaultModelName, <<"codellama">>, <<"llama2", ":", "7b">>, <<":", "7b">>}

NamedModel(name) == Obj(<<Member(<<"name">>, Str(name))>>)
ModelEntries ==
    {NamedModel(<<"codellama", ":", "13b">>), NamedModel(<<"my-", "codellama", ":", "7b">>),
     NamedModel(<<"llama2", ":", "7b">>), Obj(<<>>), Null,
     Obj(<<Member(<<"name">>, Num(<<"12">>))>>)}
ModelLists == UNION {[1..n -> ModelEntries] : n \in 0..MaxModels}
TagsData(models) == Obj(<<Member(<<"models">>, models)>>)

Probes ==
    {Reject(f.message) : f \in Failures}
    \cup {Answer(Null), Answer(Str(<<"x">>)), Answer(Obj(<<>>)), Answer(TagsData(Str(<<"x">>))),
          Answer(TagsData(Null))}
    \cup {Answer(TagsData(Arr(l))) : l \in ModelLists}

HealthConfigs ==
    [includePatterns : {<<>>}, excludePatterns : {<<>>}, maxFileSize : {0}, quiet : {FALSE},
     modelName : ModelNames, maxTokens : {DefaultMaxTokens}, temperature : {DefaultTemperature},
     timeout : {0, DefaultTimeout}]

HealthInit ==
    /\ mode = "health"
    /\ config \in HealthConfigs
    /\ diffs = <<>>
    /\ idx = 1
    /\ results = <<>>
    /\ requests = <<>>
    /\ log = <<>>
    /\ pc = "start"
    /\ report = <<>>
    /\ exitCode = 0
    /\ engine = TRUE
    /\ reply = <<>>
    /\ parsed = <<>>
    /\ options = ParseOptions(FALSE)
    /\ probe \in Probes
    /\ health = <<>>
    /\ raw = NoRaw
    /\ summary = <<>>
    /\ repo = NoRepo
    /\ git = <<>>
    /\ extracted = <<>>
    /\ fixed = <<>>

\* await reviewer.checkHealth()
CheckHealth ==
    /\ mode = "health" /\ pc = "start"
    /\ requests' = Append(requests, TagsRequest(config))
    /\ health' = <<checkHealth(config, probe)>>
    /\ pc' = "done"
    /\ UNCHANGED <<mode, config, diffs, idx, results, log, report, exitCode, engine, reply, parsed, options, probe, raw, summary, repo, git, extracted, fixed>>

HealthNext == CheckHealth
HealthSpec == HealthInit /\ [][HealthNext]_vars

----------------------------------------------------------------------------
\* The getters of GitAnalyzer as a whole: getUnstagedChanges, getStagedChanges, getCommitDiff

\* an entry of the list git gives (status.modified and not_added, status.staged,
\* diffSummary.files) with what git.diff does for it: fails when it rejects
ListedFile(file, lines, fails) ==
    [file |-> file, fails |-> fails, lines |-> lines, fileStats |-> FileStatsOf(lines), onDisk |-> NoSize]

Repo(gitMode, files) == [isRepo |-> TRUE, listable |-> TRUE, gitMode |-> gitMode, files |-> files]
\* the directory is no repository
NotARepo(gitMode) == [isRepo |-> FALSE, listable |-> FALSE, gitMode |-> gitMode, files |-> <<>>]
\* the directory is a repository but the listing call rejects (for example a commit without parent)
Unlistable(gitMode) == [isRepo |-> TRUE, listable |-> FALSE, gitMode |-> gitMode, files |-> <<>>]

GitModes == {"working-tree", "staged", "commit"}

\* lists of at most n listed files with pairwise different paths
RECURSIVE FileLists(_, _)
FileLists(S, n) ==
    IF n = 0 THEN {<<>>}
    ELSE LET shorter == FileLists(S, n - 1)
             longer == {Append(l, e) : l \in {x \in shorter : Len(x) = n - 1}, e \in S}
         IN shorter \cup {l \in longer : \A i \in 1..(Len(l) - 1) : l[i].file # l[Len(l)].file}

\* a changed text file, a file with an empty diff (an untracked file), a file
\* with a whitespace-only diff, a binary file, a file whose diff cannot be read
AnalyzerFiles ==
    {ListedFile(f, t, FALSE) : f \in Paths,
        t \in {<< <<"+", "x">> >>, <<>>, << <<WS>>, <<>> >>, <<BinaryNotice>>}}
    \cup {ListedFile(f, <<>>, TRUE) : f \in Paths}

AnalyzerRepos ==
    {Repo(m, l) : m \in GitModes, l \in FileLists(AnalyzerFiles, MaxFiles)}
    \cup {NotARepo(m) : m \in GitModes} \cup {Unlistable(m) : m \in GitModes}

AnalyzerInit ==
    /\ mode = "analyzer"
    /\ config = [includePatterns |-> <<>>, excludePatterns |-> <<>>, maxFileSize |-> 0, quiet |-> FALSE]
    /\ diffs = <<>>
    /\ idx = 1
    /\ results = <<>>
    /\ requests = <<>>
    /\ log = <<>>
    /\ pc = "changes"
    /\ report = <<>>
    /\ exitCode = 0
    /\ engine = TRUE
    /\ reply = <<>>
    /\ parsed = <<>>
    /\ options = ParseOptions(FALSE)
    /\ probe = NoProbe
    /\ health = <<>>
    /\ raw = NoRaw
    /\ summary = <<>>
    /\ repo \in AnalyzerRepos
    /\ git = <<>>
    /\ extracted = <<>>
    /\ fixed = <<>>

\* the getter threw: the catch of the review action ends the process with
\* status 1; a direct caller of the getter gets the error
GetterThrows ==
    /\ pc' = IF mode = "cli" THEN "exited" ELSE "thrown"
    /\ exitCode' = IF mode = "cli" THEN 1 ELSE exitCode

\* mutant: the changed files are listed without validating the repository
Validate_Skipped ==
    /\ mode \in {"analyzer", "cli"} /\ pc = "changes"
    /\ git' = Append(git, ListCall(repo.gitMode))
    /\ pc' = "reading"
    /\ UNCHANGED <<mode, config, diffs, idx, results, requests, log, report, exitCode, engine, reply, parsed, options, probe, health, raw, summary, repo, extracted, fixed>>

\* `await this.validateRepository()`, then `await this.git.status()` or `await this.git.diffSummary(...)`
Validate ==
    /\ mode \in {"analyzer", "cli"} /\ pc = "changes"
    /\ IF ~repo.isRepo
       THEN git' = Append(git, GitCall("checkIsRepo", <<>>)) /\ GetterThrows
       ELSE IF ~repo.listable
       THEN git' = git \o <<GitCall("checkIsRepo", <<>>), ListCall(repo.gitMode)>> /\ GetterThrows
       ELSE /\ git' = git \o <<GitCall("checkIsRepo", <<>>), ListCall(repo.gitMode)>>
            /\ pc' = "reading"
            /\ UNCHANGED exitCode
    /\ UNCHANGED <<mode, config, diffs, idx, results, requests, log, report, engine, reply, parsed, options, probe, health, raw, summary, repo, extracted, fixed>>

\* mutant: a diff that cannot be read ends the getter
ReadDiff_Unguarded ==
    /\ mode \in {"analyzer", "cli"} /\ pc = "reading" /\ FileIdx(git) <= Len(repo.files)
    /\ git' = Append(git, GitCall("diff", repo.files[FileIdx(git)].file))
    /\ IF repo.files[FileIdx(git)].fails
       THEN GetterThrows /\ UNCHANGED diffs
       ELSE /\ diffs' = PushParsed(diffs, repo.files[FileIdx(git)], repo.gitMode)
            /\ UNCHANGED <<pc, exitCode>>
    /\ UNCHANGED <<mode, config, idx, results, requests, log, report, engine, reply, parsed, options, probe, health, raw, summary, repo, extracted, fixed>>

\* one turn of the getter's loop: `try { diff = await this.git.diff(...); parsed = ...;
\* if (parsed) diffs.push(parsed) } catch { console.warn(...) }`
ReadDiff ==
    /\ mode \in {"analyzer", "cli"} /\ pc = "reading" /\ FileIdx(git) <= Len(repo.files)
    /\ git' = Append(git, GitCall("diff", repo.files[FileIdx(git)].file))
    /\ diffs' = IF repo.files[FileIdx(git)].fails THEN diffs
                ELSE PushParsed(diffs, repo.files[FileIdx(git)], repo.gitMode)
    /\ UNCHANGED <<mode, config, idx, results, requests, log, pc, report, exitCode, engine, reply, parsed, options, probe, health, raw, summary, repo, extracted, fixed>>

\* `return diffs`: to the review action, or to the caller of the getter
ReturnChanges ==
    /\ mode \in {"analyzer", "cli"} /\ pc = "reading" /\ FileIdx(git) > Len(repo.files)
    /\ pc' = IF mode = "cli" THEN "loop" ELSE "done"
    /\ UNCHANGED <<mode, config, diffs, idx, results, requests, log, report, exitCode, engine, reply, parsed, options, probe, health, raw, summary, repo, git, extracted, fixed>>

AnalyzerNext == Validate \/ ReadDiff \/ ReturnChanges
AnalyzerSpec == AnalyzerInit /\ [][AnalyzerNext]_vars

----------------------------------------------------------------------------
\* The review command from its start: options, health check, loop, signals

CommandProbes ==
    {Reject(<<"connect ECONNREFUSED 127.0.0.1:11434">>),
     Answer(TagsData(Arr(<<NamedModel(<<"llama2", ":", "7b">>)>>))),
     Answer(TagsData(Arr(<<NamedModel(<<"codellama", ":", "7b-instruct">>)>>)))}

CommandConfigs ==
    [includePatterns : {<<>>}, excludePatterns : {<<>>, <<<<"dist/">>>>}, maxFileSize : {0}, quiet : {FALSE},
     modelName : {DefaultModelName}, maxTokens : {1024, 4096}, temperature : {DefaultTemperature, "0.7"},
     timeout : {60000, DefaultTimeout}]

\* the repositories of a review run: changed text files and binary files whose
\* diffs can be read, in the staged mode; and a directory that is no repository
CommandFiles == {ListedFile(f, t, FALSE) : f \in Paths, t \in {<< <<"+", "x">> >>, <<BinaryNotice>>}}
CommandRepos ==
    {Repo("staged", l) : l \in FileLists(CommandFiles, MaxFiles)} \cup {NotARepo(m) : m \in GitModes}

CommandInit ==
    /\ mode = "cli"
    /\ config \in CommandConfigs
    /\ diffs = <<>>
    /\ idx = 1
    /\ results = <<>>
    /\ requests = <<>>
    /\ log = <<>>
    /\ pc = "start"
    /\ report = <<>>
    /\ exitCode = 0
    /\ engine = TRUE
    /\ reply = <<>>
    /\ parsed = <<>>
    /\ options \in {ParseOptions(flag) : flag \in BOOLEAN}
    /\ probe \in CommandProbes
    /\ health = <<>>
    /\ raw = NoRaw
    /\ summary = <<>>
    /\ repo \in CommandRepos
    /\ git = <<>>
    /\ extracted = <<>>
    /\ fixed = <<>>

\* `if (!options.noHealthCheck) { health = await reviewer.checkHealth(); if (!health.isHealthy) process.exit(1) }`
HealthGate ==
    /\ mode = "cli" /\ pc = "start"
    /\ IF NoHealthCheckOption(options)
       THEN /\ pc' = "changes"
            /\ UNCHANGED <<requests, health, exitCode>>
       ELSE /\ requests' = Append(requests, TagsRequest(config))
            /\ health' = <<checkHealth(config, probe)>>
            /\ pc' = IF checkHealth(config, probe).isHealthy THEN "changes" ELSE "exited"
            /\ exitCode' = IF checkHealth(config, probe).isHealthy THEN exitCode ELSE 1
    /\ UNCHANGED <<mode, config, diffs, idx, results, log, report, engine, reply, parsed, options, probe, raw, summary, repo, git, extracted, fixed>>

\* process.on('SIGINT' / 'SIGTERM'): a message is printed and process.exit(0) ends the process
Interrupt ==
    /\ mode = "cli" /\ pc \in {"start", "changes", "reading", "loop", "await"}
    /\ pc' = "interrupted"
    /\ exitCode' = 0
    /\ UNCHANGED <<mode, config, diffs, idx, results, requests, log, report, engine, reply, parsed, options, probe, health, raw, summary, repo, git, extracted, fixed>>

CommandNext ==
    \/ HealthGate \/ Validate \/ ReadDiff \/ ReturnChanges \/ CliSkip \/ PatternSkip \/ SendRequest \/ ReceiveReply \/ RequestFails
    \/ NoChanges \/ Display \/ Interrupt
CommandSpec == CommandInit /\ [][CommandNext]_vars

----------------------------------------------------------------------------
\* Diff extraction alone: one file of getUnstagedChanges, getStagedChanges or getCommitDiff

\* lines of a diff: added, removed, file headers, context, hunk header, mode
\* markers, the binary notice, and the empty line
DiffLineKinds ==
    {<<"+", "x">>, <<"-", "x">>, AddedHeader, RemovedHeader,
     <<"+", "+", "+", "x">>, <<WS, "x">>, <<"@@", WS, "-", "1", WS, "+", "1", WS, "@@">>,
     <<"new file mode", WS, "100644">>, <<"deleted file mode", WS, "100644">>,
     BinaryNotice, <<"+", "values", WS, "differ">>, <<>>}

\* diff texts of one file: at most one of the two mode markers
DiffTexts ==
    {t \in UNION {[1..n -> DiffLineKinds] : n \in 0..MaxLines} :
        ~(SomeLine(t, "new file mode") /\ SomeLine(t, "deleted file mode"))}

RawDiffs ==
    [file : {<<"src/", "a", ".ts">>}, gitMode : {"working-tree", "staged"}, lines : DiffTexts,
     fileStats : {[insertions |-> NoSize, deletions |-> NoSize]}, onDisk : {NoSize, 400}]
    \cup {[file |-> <<"src/", "a", ".ts">>, gitMode |-> "commit", lines |-> t,
           fileStats |-> FileStatsOf(t), onDisk |-> d] : t \in DiffTexts, d \in {NoSize, 400}}

ExtractInit ==
    /\ mode = "extract"
    /\ config = [includePatterns |-> <<>>, excludePatterns |-> <<>>, maxFileSize |-> 0, quiet |-> FALSE]
    /\ diffs = <<>>
    /\ idx = 1
    /\ results = <<>>
    /\ requests = <<>>
    /\ log = <<>>
    /\ pc = "start"
    /\ report = <<>>
    /\ exitCode = 0
    /\ engine = TRUE
    /\ reply = <<>>
    /\ parsed = <<>>
    /\ options = ParseOptions(FALSE)
    /\ probe = NoProbe
    /\ health = <<>>
    /\ raw \in RawDiffs
    /\ summary = <<>>
    /\ repo = NoRepo
    /\ git = <<>>
    /\ extracted = <<>>
    /\ fixed = <<>>

\* one turn of the loop of getUnstagedChanges / getStagedChanges / getCommitDiff:
\* `const parsed = await this.parseSingleFileDiff(...); if (parsed) diffs.push(parsed)`
ExtractDiff ==
    /\ mode = "extract" /\ pc = "start"
    /\ diffs' = PushParsed(diffs, raw, raw.gitMode)
    /\ pc' = "done"
    /\ UNCHANGED <<mode, config, idx, results, requests, log, report, exitCode, engine, reply, parsed, options, probe, health, raw, summary, repo, git, extracted, fixed>>

ExtractNext == ExtractDiff
ExtractSpec == ExtractInit /\ [][ExtractNext]_vars

----------------------------------------------------------------------------
\* The report alone: displayResults applied to a result list

DisplayPaths == {<<"b", ".ts">>, <<"a", ".ts">>, <<"2">>, <<"10">>}
DisplayFindings ==
    {ReviewResult(f, sev, Undefined, Str(<<m>>), Undefined, Undefined) :
        f \in DisplayPaths, sev \in Severities, m \in {"x", "y"}}
ResultLists == UNION {[1..n -> DisplayFindings] : n \in 0..MaxResults}

DisplayInit ==
    /\ mode = "display"
    /\ config \in {[includePatterns |-> <<>>, excludePatterns |-> <<>>, maxFileSize |-> 0, quiet |-> q] : q \in BOOLEAN}
    /\ diffs = <<>>
    /\ idx = 1
    /\ results \in ResultLists
    /\ requests = <<>>
    /\ log = <<>>
    /\ pc = "loop"
    /\ report = <<>>
    /\ exitCode = 0
    /\ engine = TRUE
    /\ reply = <<>>
    /\ parsed = <<>>
    /\ options = ParseOptions(FALSE)
    /\ probe = NoProbe
    /\ health = <<>>
    /\ raw = NoRaw
    /\ summary = <<>>
    /\ repo = NoRepo
    /\ git = <<>>
    /\ extracted = <<>>
    /\ fixed = <<>>

\* displayResults(results, options.quiet)
ShowResults ==
    /\ mode = "display" /\ pc = "loop"
    /\ DisplayAll(results)
    /\ pc' = "done"
    /\ UNCHANGED <<mode, config, diffs, idx, results, requests, log, engine, reply, parsed, options, probe, health, raw, repo, git, extracted, fixed>>

DisplayNext == ShowResults
DisplaySpec == DisplayInit /\ [][DisplayNext]_vars

----------------------------------------------------------------------------
\* Claims

\* the eligibility decision a log entry records
KindDecision(kind) == IF kind \in {"reply", "failed"} THEN "analyze" ELSE kind

Excluded(diff, cfg) ==
    \E i \in 1..Len(cfg.excludePatterns) : Includes(diff.file, cfg.excludePatterns[i])
NotIncluded(diff, cfg) ==
    /\ cfg.includePatterns # <<>>
    /\ \A i \in 1..Len(cfg.includePatterns) : ~Includes(diff.file, cfg.includePatterns[i])
\* a ceiling is configured, the size is known and above it
OverCeiling(diff, cfg) ==
    cfg.maxFileSize > 0 /\ diff.fileSize # NoSize /\ diff.fileSize > cfg.maxFileSize

\* the rule order as the specification lists it: binary before oversized
ListedDecision(diff, cfg) ==
    IF Excluded(diff, cfg) THEN "skip-pattern"
    ELSE IF NotIncluded(diff, cfg) THEN "skip-pattern"
    ELSE IF diff.isBinary THEN "skip-binary"
    ELSE IF OverCeiling(diff, cfg) THEN "skip-too-large"
    ELSE "analyze"

\* the rule order with rules 3 and 4 exchanged: oversized before binary
ExchangedDecision(diff, cfg) ==
    IF Excluded(diff, cfg) THEN "skip-pattern"
    ELSE IF NotIncluded(diff, cfg) THEN "skip-pattern"
    ELSE IF OverCeiling(diff, cfg) THEN "skip-too-large"
    ELSE IF diff.isBinary THEN "skip-binary"
    ELSE "analyze"

\* the findings of rs for one file with one severity
FindingsOf(rs, file, sev) == {j \in 1..Len(rs) : rs[j].file = file /\ rs[j].severity = sev}
FindingsFor(rs, file) == {j \in 1..Len(rs) : rs[j].file = file}

\* C1 as stated: every record processed by reviewChanges got the decision of
\* the first matching rule in the listed order (exclude, include, binary,
\* oversized, analyze), so a record both binary and over the ceiling is
\* reported as the binary skip.
C1_Listed ==
    /\ \A i \in 1..Len(log) : KindDecision(log[i].kind) = ListedDecision(diffs[i], config)
    /\ pc = "await" => ListedDecision(Current, config) = "analyze"

\* C1 amended: every record processed by reviewChanges got the decision of the
\* first matching rule in the order exclude, include, oversized, binary,
\* analyze; exclude outranks include; a record both binary and over the ceiling
\* is reported as the oversized skip (one warning), a binary record under the
\* ceiling as the binary skip (one info).
C1_Decision ==
    /\ \A i \in 1..Len(log) :
          /\ log[i].file = diffs[i].file
          /\ KindDecision(log[i].kind) = ExchangedDecision(diffs[i], config)
          /\ log[i].kind = "skip-pattern" => log[i].added = <<>>
          /\ log[i].kind = "skip-too-large" =>
                Len(log[i].added) = 1 /\ log[i].added[1].severity = "warning"
          /\ log[i].kind = "skip-binary" =>
                Len(log[i].added) = 1 /\ log[i].added[1].severity = "info"
    /\ pc = "await" => ExchangedDecision(Current, config) = "analyze"

C1_Witness ==
    \E i \in 1..Len(log) :
        /\ diffs[i].isBinary /\ OverCeiling(diffs[i], config)
        /\ log[i].kind = "skip-too-large"
        /\ \E j \in 1..Len(log) :
              log[j].kind = "skip-pattern" /\ Excluded(diffs[j], config) /\ ~NotIncluded(diffs[j], config)
                 /\ config.includePatterns # <<>>

\* the message names both byte counts
NamesSizes(message, diff, cfg) ==
    /\ Includes(message.s, <<ToString(diff.fileSize)>>)
    /\ Includes(message.s, <<ToString(cfg.maxFileSize)>>)

\* C2 as stated: in a finished review run, a record whose size exceeds
\* maxFileSize and that no pattern rule skips caused no generation request and
\* has exactly one finding in the final report, a warning naming the actual
\* size and the limit.
C2_OversizedReported ==
    pc = "done" =>
        \A i \in 1..Len(diffs) :
            (OverCeiling(diffs[i], config) /\ ~shouldSkipFile(diffs[i], config)) =>
                /\ \A k \in 1..Len(requests) : requests[k].file # diffs[i].file
                /\ Cardinality(FindingsFor(report, diffs[i].file)) = 1
                /\ \A j \in FindingsFor(report, diffs[i].file) :
                      report[j].severity = "warning" /\ NamesSizes(report[j].message, diffs[i], config)

\* C3 as stated: in a finished review run, every binary record that no pattern
\* rule skips has exactly one finding in the final report, the info-severity
\* "skipped" notice, and caused no generation request.
C3_BinaryReported ==
    pc = "done" =>
        \A i \in 1..Len(diffs) :
            (diffs[i].isBinary /\ ~shouldSkipFile(diffs[i], config)) =>
                /\ \A k \in 1..Len(requests) : requests[k].file # diffs[i].file
                /\ Cardinality(FindingsFor(report, diffs[i].file)) = 1
                /\ \A j \in FindingsFor(report, diffs[i].file) :
                      report[j].severity = "info" /\ report[j].message = Str(<<"Binary file skipped">>)

\* the failure cause of a failed request: the Timeout condition for a timeout, the transport error's message otherwise
Cause(entry) ==
    IF entry.code = "ECONNABORTED" THEN <<"Timeout when calling AI model">> ELSE entry.text

\* rs holds exactly one error finding for the failed record, naming its path and the cause
OneErrorFinding(rs, entry) ==
    /\ Cardinality(FindingsOf(rs, entry.file, "error")) = 1
    /\ \A j \in FindingsOf(rs, entry.file, "error") : Includes(rs[j].message.s, Cause(entry))

\* C4: a failed generation request leaves exactly one error finding for that
\* file, naming the path and the failure cause, in the result list and (quiet
\* or not) in the final report; the loop goes on with the next record and a
\* finished run has processed every record.
C4_FailureIsolated ==
    /\ idx = Len(log) + 1
    /\ pc = "done" => Len(log) = Len(diffs)
    /\ \A i \in 1..Len(log) :
          log[i].kind = "failed" =>
              /\ OneErrorFinding(results, log[i])
              /\ (pc = "done" => OneErrorFinding(report, log[i]))

C4_Witness ==
    /\ pc = "done" /\ config.quiet
    /\ \E i \in 1..Len(log) :
          /\ log[i].kind = "failed" /\ log[i].code = "ECONNABORTED"
          /\ i < Len(log) /\ log[i + 1].kind = "reply"
          /\ OneErrorFinding(report, log[i])

----------------------------------------------------------------------------
\* Claims about the reply parser

CountFences(t) == Cardinality({i \in 1..Len(t) : t[i] = FENCE})

\* t with a double quote put in after position k
CloseAt(t, k) == Prefix(t, k) \o <<Q>> \o Suffix(t, k + 1)

\* neither t, nor t with an open string closed anywhere, nor any prefix of t is valid JSON
Unrecoverable(t) ==
    /\ \A n \in 0..Len(t) : ~JsonParse(Prefix(t, n)).ok
    /\ \A k \in 0..Len(t) : ~JsonParse(CloseAt(t, k)).ok

\* the parsed document holds no list of reviews
NoReviewsList(v) == v.t # "obj" \/ Get(v, "reviews").t # "arr"

IsMalformedFinding(f, file) ==
    f.file = file /\ f.severity = "info" /\ f.message = MalformedMessage

UnrecoverableRunReplies == {r \in RunReplies : Unrecoverable(extractJSON(r))}
NoListRunReplies ==
    {r \in RunReplies : JsonParse(extractJSON(r)).ok /\ NoReviewsList(JsonParse(extractJSON(r)).val)}

IsFinding(f, file) ==
    /\ f.file = file
    /\ f.severity \in Severities
    /\ f.message.t # "undefined"

OddQuotes(t) == Cardinality({i \in 1..Len(t) : t[i] = Q}) % 2 = 1

\* reviews documents cut off inside a string value
CutInString == {t \in CutDocs : OddQuotes(t) /\ t[LastIndex(t, Q) - 1] = ":"}

\* r is the findings of t with its open string closed
RepairedFindings(t, r) ==
    \E k \in LastIndex(t, Q)..Len(t) :
        JsonParse(CloseAt(t, k)).ok /\ r = ParsedToResults(ReplyFile, JsonParse(CloseAt(t, k)))

\* C6 as stated: for every reply the parser returns a list of findings; for a
\* reviews document cut off inside a string value the list is the repaired
\* document's findings or empty.
C6_AlwaysAList ==
    pc = "parsed" =>
        /\ Len(parsed) = 1
        /\ \A j \in 1..Len(parsed[1]) : IsFinding(parsed[1][j], ReplyFile)
        /\ reply \in CutInString => (parsed[1] = <<>> \/ RepairedFindings(reply, parsed[1]))

C6_Witness ==
    /\ pc = "parsed"
    /\ reply \in CutInString /\ CountFences(reply) = 2
    /\ Len(parsed[1]) = 1 /\ IsMalformedFinding(parsed[1][1], ReplyFile)
    /\ ~RepairedFindings(reply, parsed[1])

\* the findings a list of entries stands for
Expected(es) ==
    [i \in 1..Len(es) |->
        ReviewResult(ReplyFile, Get(es[i], "severity").s[1], Get(es[i], "line"),
                     Get(es[i], "message"), Get(es[i], "suggestion"), Get(es[i], "category"))]

\* C7 as stated: a reply that is exactly a reviews document of k entries with
\* a severity of the enum and a non-empty message gives exactly those k
\* findings, in order, with the entry's line, suggestion and category or
\* undefined.
C7_RoundTripAll ==
    pc = "parsed" =>
        \A es \in GoodEntryLists : reply = ReviewsDoc(es) => parsed[1] = Expected(es)

C7_Witness ==
    /\ pc = "parsed"
    /\ reply = ReviewsDoc(<<MakeEntry(Str(<<"warning">>), Undefined, Str(<<FENCE, "12", FENCE>>),
                                      Undefined, Undefined)>>)
    /\ Len(parsed[1]) = 1 /\ IsMalformedFinding(parsed[1][1], ReplyFile)

\* the severity the claim gives a reported value
ClaimedSeverity(v) ==
    IF v = Str(<<"error">>) THEN "error"
    ELSE IF v = Str(<<"warning">>) THEN "warning"
    ELSE IF v = Str(<<"info">>) THEN "info"
    ELSE "info"

\* the run replies that are reviews documents, with the severities of their entries
RunDocs ==
    {r \in RunReplies : JsonParse(r).ok /\ ~NoReviewsList(JsonParse(r).val)}
RunDocSeverities ==
    [r \in RunDocs |->
        [k \in 1..Len(Get(JsonParse(r).val, "reviews").items) |->
            ClaimedSeverity(Get(Get(JsonParse(r).val, "reviews").items[k], "severity"))]]

\* C8: every finding of the result list and of the report has a severity of
\* the enum; the findings of a reviews document keep a reported severity of
\* the enum and have info for any other value.
C8_SeverityClosed ==
    /\ \A j \in 1..Len(results) : results[j].severity \in Severities
    /\ \A j \in 1..Len(report) : report[j].severity \in Severities
    /\ \A i \in 1..Len(log) :
          (log[i].kind = "reply" /\ log[i].text \in RunDocs) =>
              /\ Len(log[i].added) = Len(RunDocSeverities[log[i].text])
              /\ \A k \in 1..Len(log[i].added) :
                    log[i].added[k].severity = RunDocSeverities[log[i].text][k]

C8_Witness ==
    \E i \in 1..Len(log) :
        /\ log[i].kind = "reply"
        /\ log[i].text = ReviewsDoc(<<Entry("critical", "x"), Entry("warning", "y")>>)
        /\ log[i].added[1].severity = "info" /\ log[i].added[2].severity = "warning"
        /\ \E j \in 1..Len(log) : log[j].kind = "failed"

\* C9: when the extracted reply parses but holds no list of reviews, the
\* parser returns exactly one finding: info, for the originating file, with
\* the malformed-reply message.
C9_SchemaFallback ==
    (pc = "parsed" /\ JsonParse(extractJSON(reply)).ok
                   /\ NoReviewsList(JsonParse(extractJSON(reply)).val)) =>
        /\ Len(parsed[1]) = 1
        /\ IsMalformedFinding(parsed[1][1], ReplyFile)

C9_Witness ==
    /\ pc = "parsed"
    /\ reply = <<FENCE, "json", WS>> \o Stringify(Obj(<<Member(<<"reviews">>, Num(<<"0">>))>>)) \o <<WS, FENCE>>
    /\ Len(parsed[1]) = 1 /\ IsMalformedFinding(parsed[1][1], ReplyFile)

\* C10: when neither the extracted text, nor the text with its open string
\* closed, nor any prefix of it is valid, the parser returns the empty list.
C10_TerminalFallback ==
    (pc = "parsed" /\ Unrecoverable(extractJSON(reply))) => parsed = << <<>> >>

C10_Witness ==
    /\ pc = "parsed" /\ engine
    /\ reply \in CutInString
    /\ Includes(Suffix(reply, LastIndex(reply, Q) + 1), <<"}">>)
    /\ Unrecoverable(extractJSON(reply))
    /\ parsed = << <<>> >>

----------------------------------------------------------------------------
\* Claims about the health probe

\* the entries of response.data.models, <<>> when there is no such list
Listed(outcome) ==
    IF outcome.answers /\ Get(outcome.data, "models").t = "arr"
    THEN Get(outcome.data, "models").items ELSE <<>>
IsNamed(entry) == entry.t = "obj" /\ Get(entry, "name").t = "str"
NameOf(entry) == Get(entry, "name").s
BeginsWith(name, base) == OccursAt(name, base, 1)

\* C11 as stated: the probe reports healthy exactly when the service answers
\* and a listed identifier begins with the configured model's base name; when
\* the service answers with named models none of which begins with it, the
\* probe reports healthy = false with an error naming the configured model.
C11_HealthyIffPrefix ==
    pc = "done" =>
        /\ health[1].isHealthy <=>
              (probe.answers /\ \E i \in 1..Len(Listed(probe)) :
                  IsNamed(Listed(probe)[i])
                  /\ BeginsWith(NameOf(Listed(probe)[i]), BaseName(config.modelName)))
        /\ (/\ probe.answers /\ probe.data.t = "obj"
            /\ Get(probe.data, "models").t \in {"arr", "undefined", "null"}
            /\ \A i \in 1..Len(Listed(probe)) :
                  /\ IsNamed(Listed(probe)[i])
                  /\ ~BeginsWith(NameOf(Listed(probe)[i]), BaseName(config.modelName)))
              => (~health[1].isHealthy /\ Includes(health[1].error.s, config.modelName))

\* C11 amended: the probe reports healthy exactly when the service answers
\* with a model list in which some entry's name contains the base name and
\* every entry before that one has a name; when the service answers with no
\* list or with a list of named entries none of which contains the base name,
\* the probe reports healthy = false with the "Model ... not found" error
\* naming the configured model.
C11_HealthyIffContains ==
    pc = "done" =>
        /\ health[1].isHealthy <=>
              \E i \in 1..Len(Listed(probe)) :
                  /\ \A j \in 1..i : IsNamed(Listed(probe)[j])
                  /\ Includes(NameOf(Listed(probe)[i]), BaseName(config.modelName))
        /\ (/\ probe.answers /\ probe.data.t = "obj"
            /\ Get(probe.data, "models").t \in {"arr", "undefined", "null"}
            /\ \A i \in 1..Len(Listed(probe)) :
                  /\ IsNamed(Listed(probe)[i])
                  /\ ~Includes(NameOf(Listed(probe)[i]), BaseName(config.modelName)))
              => /\ ~health[1].isHealthy
                 /\ OccursAt(health[1].error.s, <<"Model ">> \o config.modelName \o <<" not found. Available models: ">>, 1)

\* a model whose name holds the base name without beginning with it is accepted
C11_Witness ==
    /\ pc = "done" /\ health[1].isHealthy
    /\ Len(Listed(probe)) = 2
    /\ BaseName(config.modelName) = <<"codellama">>
    /\ \A i \in 1..2 : IsNamed(Listed(probe)[i])
                        /\ ~BeginsWith(NameOf(Listed(probe)[i]), <<"codellama">>)

\* C12: for every outcome of the model-listing request checkHealth returns a
\* HealthCheck value (nothing is raised), and when isHealthy is false the
\* error is a non-empty string.
C12_NeverRaises ==
    pc = "done" =>
        /\ Len(health) = 1
        /\ DOMAIN health[1] = {"isHealthy", "error"}
        /\ health[1].isHealthy \in BOOLEAN
        /\ ~health[1].isHealthy => (health[1].error.t = "str" /\ health[1].error.s # <<>>)

\* a rejected request and an entry without a name both end in a health value
C12_Witness ==
    /\ pc = "done"
    /\ ~health[1].isHealthy
    /\ health[1].error = Str(<<"Ollama server unavailable: ">> \o TypeErrorMessage)
    /\ Len(Listed(probe)) = 2 /\ ~IsNamed(Listed(probe)[2])

----------------------------------------------------------------------------
\* Claims about the requests of a run

TimeoutFinding(file) ==
    ReviewResult(file, "error", Undefined,
                 Str(<<"Failed to analyze file: ", "Timeout when calling AI model">>),
                 Undefined, Undefined)

\* C13: a generation request that timed out leaves, for its file, exactly one
\* error finding whose cause is 'Timeout when calling AI model' and not the
\* transport error's message, and the loop goes on with the next record.
C13_TimeoutSurfaced ==
    /\ idx = Len(log) + 1
    /\ \A i \in 1..Len(log) :
          (log[i].kind = "failed" /\ log[i].code = "ECONNABORTED") =>
              /\ log[i].added = <<TimeoutFinding(log[i].file)>>
              /\ ~Includes(log[i].added[1].message.s, log[i].text)
              /\ {results[j] : j \in FindingsFor(results, log[i].file)} = {TimeoutFinding(log[i].file)}
              /\ (pc = "done" =>
                    {report[j] : j \in FindingsFor(report, log[i].file)} = {TimeoutFinding(log[i].file)})

C13_Witness ==
    /\ pc = "done" /\ Len(log) = 2
    /\ log[1].kind = "failed" /\ log[1].code = "ECONNABORTED"
    /\ log[2].kind = "reply" /\ log[2].added # <<>>
    /\ report[1] = TimeoutFinding(log[1].file)

\* the generation requests issued so far, in order
IsGenerate(request) == request.kind = "generate"
Generated == SelectSeq(requests, IsGenerate)
\* the position in diffs of the record a request was issued for
RecordOf(request) == CHOOSE i \in 1..Len(diffs) : diffs[i].file = request.file
\* the requests that completed or failed
Settled == {i \in 1..Len(log) : log[i].kind \in {"reply", "failed"}}

\* C14: generation requests are issued in change-record order, each after the
\* previous one was answered or failed: at most one is in flight, it is the
\* one of the current record, and every record the loop has passed that was
\* to be analyzed got exactly one request, whether it failed or not.
C14_OneAtATime ==
    /\ \A k \in 1..Len(Generated) : \E i \in 1..Len(diffs) : diffs[i].file = Generated[k].file
    /\ \A k \in 1..(Len(Generated) - 1) : RecordOf(Generated[k]) < RecordOf(Generated[k + 1])
    /\ Len(Generated) - Cardinality(Settled) \in {0, 1}
    /\ (pc = "await") => (Len(Generated) - Cardinality(Settled) = 1
                           /\ Generated[Len(Generated)].file = diffs[idx].file)
    /\ (pc \in {"start", "changes", "reading", "loop", "done", "exited"}) => Len(Generated) = Cardinality(Settled)
    /\ \A i \in 1..Len(diffs) :
          Cardinality({k \in 1..Len(Generated) : Generated[k].file = diffs[i].file})
              = IF /\ (i < idx \/ (i = idx /\ Len(Generated) > Cardinality(Settled)))
                   /\ ~CliSkips(diffs[i], config)
                   /\ Decision(diffs[i], config) = "analyze"
                THEN 1 ELSE 0

C14_Witness ==
    /\ pc = "await" /\ idx = 2 /\ Len(Generated) = 2
    /\ log[1].kind = "failed"
    /\ Generated[1].file = diffs[1].file /\ Generated[2].file = diffs[2].file

----------------------------------------------------------------------------
\* Claims about the review command

\* every entry of the result list is a complete finding of a record the loop has passed
Intact ==
    \A j \in 1..Len(results) :
        /\ results[j].severity \in Severities
        /\ results[j].message.t = "str"
        /\ \E i \in 1..Len(log) : log[i].file = results[j].file
                                   /\ \E k \in 1..Len(log[i].added) : log[i].added[k] = results[j]

GenerateRequests == {k \in 1..Len(requests) : requests[k].kind = "generate"}
TagsRequests == {k \in 1..Len(requests) : requests[k].kind = "tags"}

\* C15 as stated: once an interrupt has arrived in a run that has accumulated
\* results, no further generation request is issued, the result list is
\* intact, and it remains displayable: the display of the results can still
\* take place.
C15_Cancellation ==
    (pc = "interrupted" /\ results # <<>>) =>
        /\ ~ENABLED SendRequest
        /\ Intact
        /\ ENABLED Display

\* an interrupt between two files: the findings of the first file are held, nothing is displayed
C15_Witness ==
    /\ pc = "interrupted" /\ exitCode = 0
    /\ idx = 2 /\ Len(diffs) = 2
    /\ \E j \in 1..Len(results) : results[j].severity = "error"
    /\ Intact
    /\ report = <<>> /\ ~ENABLED Display

\* C16 as stated: with --no-health-check no probe request is issued and an
\* unreachable service or a missing model does not end the run; without the
\* flag an unhealthy probe ends the run before any record is processed.
C16_HealthCheckOptional ==
    /\ options = ParseOptions(TRUE) =>
          /\ TagsRequests = {}
          /\ pc # "exited"
    /\ (options = ParseOptions(FALSE) /\ pc # "start" /\ ~checkHealth(config, probe).isHealthy
        /\ (pc = "interrupted" => health # <<>>)) =>
          /\ pc \in {"exited", "interrupted"}
          /\ GenerateRequests = {} /\ log = <<>>

\* the flag is given, the service refuses the connection: the probe is sent and the run ends with status 1
C16_Witness ==
    /\ options = ParseOptions(TRUE)
    /\ ~probe.answers
    /\ TagsRequests = {1}
    /\ pc = "exited" /\ exitCode = 1
    /\ Len(repo.files) > 0 /\ log = <<>>

\* C17 as stated: every generation request carries config.maxTokens as its
\* token budget, config.temperature as its temperature and config.timeout as
\* its timeout.
C17_RequestCarriesConfig ==
    \A k \in GenerateRequests :
        /\ requests[k].num_predict = config.maxTokens
        /\ requests[k].temperature = config.temperature
        /\ requests[k].timeout = config.timeout

\* maxTokens = 4096 gives a budget of 2048
C17_Witness ==
    /\ config.maxTokens = 4096
    /\ GenerateRequests # {}
    /\ \A k \in GenerateRequests :
          /\ requests[k].num_predict = 2048
          /\ requests[k].temperature = config.temperature
          /\ requests[k].timeout = config.timeout

----------------------------------------------------------------------------
\* Claims about diff extraction

\* the lines that begin with one sign and not with three
SignedLines(lines, sign) ==
    {i \in 1..Len(lines) : lines[i] # <<>> /\ lines[i][1] = sign
                            /\ ~(Len(lines[i]) >= 3 /\ lines[i][2] = sign /\ lines[i][3] = sign)}
IsContextOrHunk(line) == line # <<>> /\ line[1] \in {WS, "@@"}
\* the text without its context lines and hunk headers
RECURSIVE WithoutContext(_)
WithoutContext(lines) ==
    IF lines = <<>> THEN <<>>
    ELSE (IF IsContextOrHunk(Head(lines)) THEN <<>> ELSE <<Head(lines)>>) \o WithoutContext(Tail(lines))
Supplied(n) == IF n = NoSize THEN 0 ELSE n

\* C18: for a non-empty diff text without statistics, additions is the number
\* of lines beginning with '+' but not '+++' and deletions the number of lines
\* beginning with '-' but not '---', the same as for the text without its
\* context lines and hunk headers; with statistics, they are the supplied
\* insertions and deletions.
C18_LineCounts ==
    (pc = "done" /\ ~IsEmptyText(raw.lines)) =>
        /\ Len(diffs) = 1
        /\ raw.gitMode # "commit" =>
              /\ diffs[1].additions = Cardinality(SignedLines(raw.lines, "+"))
              /\ diffs[1].deletions = Cardinality(SignedLines(raw.lines, "-"))
              /\ diffs[1].additions = Cardinality(SignedLines(WithoutContext(raw.lines), "+"))
              /\ diffs[1].deletions = Cardinality(SignedLines(WithoutContext(raw.lines), "-"))
        /\ raw.gitMode = "commit" =>
              /\ diffs[1].additions = Supplied(raw.fileStats.insertions)
              /\ diffs[1].deletions = Supplied(raw.fileStats.deletions)

C18_Witness ==
    /\ pc = "done" /\ raw.gitMode = "staged"
    /\ raw.lines = << <<"+", "+", "+", WS, "b/f">>, <<"@@", WS, "-", "1", WS, "+", "1", WS, "@@">>, <<"+", "x">> >>
    /\ diffs[1].additions = 1 /\ diffs[1].deletions = 0

\* C19 as stated: isNew and isDeleted are never both true; a text with a
\* 'new file mode' line gives isNew and not isDeleted, a text with a
\* 'deleted file mode' line gives isDeleted and not isNew, in every mode.
C19_NewXorDeleted ==
    (pc = "done" /\ Len(diffs) = 1) =>
        /\ ~(diffs[1].isNew /\ diffs[1].isDeleted)
        /\ SomeLine(raw.lines, "new file mode") => (diffs[1].isNew /\ ~diffs[1].isDeleted)
        /\ SomeLine(raw.lines, "deleted file mode") => (diffs[1].isDeleted /\ ~diffs[1].isNew)

\* a commit that adds an empty file: the marker is there, the statistics count nothing
C19_Witness ==
    /\ pc = "done" /\ raw.gitMode = "commit"
    /\ raw.lines = << <<"new file mode", WS, "100644">> >>
    /\ raw.fileStats = [insertions |-> 0, deletions |-> 0] /\ raw.onDisk = 400
    /\ Len(diffs) = 1 /\ ~diffs[1].isNew

----------------------------------------------------------------------------
\* Claims about the report

Positions(rs, f) == {i \in 1..Len(rs) : rs[i] = f}
FirstSeen(file) == CHOOSE i \in 1..Len(results) :
                      results[i].file = file /\ \A j \in 1..(i - 1) : results[j].file # file
RECURSIVE Select(_, _, _)
Select(rs, file, sev) ==
    IF rs = <<>> THEN <<>>
    ELSE (IF Head(rs).file = file /\ Head(rs).severity = sev THEN <<Head(rs)>> ELSE <<>>)
         \o Select(Tail(rs), file, sev)
Rank(sev) == IF sev = "error" THEN 0 ELSE IF sev = "warning" THEN 1 ELSE 2

\* C20 as stated: the report holds exactly the findings of the result list;
\* the findings of a file are together, the files in the order in which each
\* first appears in the result list; within a file the findings are in
\* severity rank order, those of equal severity in arrival order.
C20_GroupedFirstSeen ==
    pc = "done" =>
        /\ Len(report) = Len(results)
        /\ \A i \in 1..Len(results) :
              Cardinality(Positions(report, results[i])) = Cardinality(Positions(results, results[i]))
        /\ \A i \in 1..Len(report) : \A j \in (i + 1)..Len(report) :
              /\ report[i].file # report[j].file =>
                    FirstSeen(report[i].file) < FirstSeen(report[j].file)
              /\ report[i].file = report[j].file =>
                    Rank(report[i].severity) <= Rank(report[j].severity)
        /\ \A i \in 1..Len(results) :
              Select(report, results[i].file, results[i].severity)
                  = Select(results, results[i].file, results[i].severity)

\* a file named 2 reported after b.ts is printed before it
C20_Witness ==
    /\ pc = "done"
    /\ Len(results) = 3
    /\ results[1].file = <<"b", ".ts">> /\ results[2].file = <<"2">> /\ results[3].file = <<"b", ".ts">>
    /\ report[1].file = <<"2">> /\ report[2].file = <<"b", ".ts">>

\* the number of findings of one severity, counted along the list
RECURSIVE Tally(_, _)
Tally(rs, sev) ==
    IF rs = <<>> THEN 0
    ELSE (IF Head(rs).severity = sev THEN 1 ELSE 0) + Tally(Tail(rs), sev)

SummaryLabel(sev) == CASE sev = "error" -> "errors" [] sev = "warning" -> "warnings" [] sev = "info" -> "info"

\* the count the summary gives for a severity: the number of its part, 0 when it has no part
Summarized(parts, sev) ==
    IF \E k \in 1..Len(parts) : parts[k].label = SummaryLabel(sev)
    THEN (CHOOSE part \in {parts[k] : k \in 1..Len(parts)} : part.label = SummaryLabel(sev)).count
    ELSE 0

\* C21: after displayResults of a non-empty result list, the summary gives
\* for each severity the number of findings of that severity in the whole
\* list, the three counts add up to the number of findings, and when the
\* error count is at least 1 the exit status is not zero.
C21_SummaryCounts ==
    (pc = "done" /\ results # <<>>) =>
        /\ Len(summary) = 1
        /\ \A sev \in Severities : Summarized(summary[1], sev) = Tally(results, sev)
        /\ \A k \in 1..Len(summary[1]) : \A j \in 1..Len(summary[1]) :
              summary[1][k].label = summary[1][j].label => k = j
        /\ Summarized(summary[1], "error") + Summarized(summary[1], "warning")
               + Summarized(summary[1], "info") = Len(results)
        /\ Summarized(summary[1], "error") >= 1 => exitCode # 0

\* two errors after an info finding: the summary reads 2 errors, 1 info and the status is 1
C21_Witness ==
    /\ pc = "done" /\ Len(results) = 3
    /\ results[1].severity = "info" /\ results[2].severity = "error" /\ results[3].severity = "error"
    /\ summary = << <<[count |-> 2, label |-> "errors"], [count |-> 1, label |-> "info"]>> >>
    /\ exitCode = 1

----------------------------------------------------------------------------
\* Claims about the result list of reviewChanges

\* the positions of the records the loop has passed
Passed == 1..(idx - 1)
RequestsFor(file) == {k \in 1..Len(requests) : requests[k].kind = "generate" /\ requests[k].file = file}
\* the findings reviewSingleFile makes up itself for a record it does not submit
Notices(diff, cfg) == {BinaryFinding(diff), TooLargeFinding(diff, cfg)}

\* C22: at every point of reviewChanges, every finding of the result list
\* carries the path of a record that the loop has passed and that no pattern
\* rule skips; a record a pattern rule skips has no finding and no generation
\* request; a record skipped as binary or oversized has no generation request
\* and no finding but the one notice of its skip.
C22_FindingsOfSubmitted ==
    /\ idx - 1 <= Len(diffs)
    /\ \A j \in 1..Len(results) :
          \E i \in Passed : diffs[i].file = results[j].file /\ ~shouldSkipFile(diffs[i], config)
    /\ \A i \in 1..Len(diffs) :
          LET found == FindingsFor(results, diffs[i].file)
          IN IF shouldSkipFile(diffs[i], config)
             THEN found = {} /\ RequestsFor(diffs[i].file) = {}
             ELSE (diffs[i].isBinary \/ TooLarge(diffs[i], config)) =>
                     /\ RequestsFor(diffs[i].file) = {}
                     /\ Cardinality(found) = IF i \in Passed THEN 1 ELSE 0
                     /\ \A j \in found : results[j] \in Notices(diffs[i], config)

\* an excluded record, then an analyzed one with two findings: both carry the second path
C22_Witness ==
    /\ pc = "done" /\ Len(diffs) = 2 /\ Len(log) = 2
    /\ log[1].kind = "skip-pattern" /\ log[2].kind = "reply" /\ Len(log[2].added) = 2
    /\ Len(results) = 2 /\ results[1].file = diffs[2].file

----------------------------------------------------------------------------
\* Claims about the getters of GitAnalyzer

IsDiffCall(call) == call.op = "diff"
\* the diffs read so far, in order
DiffCalls == SelectSeq(git, IsDiffCall)
\* the diff of the listed file can be read and holds something besides blanks
Readable(entry) ==
    /\ ~entry.fails
    /\ \E i \in 1..Len(entry.lines) : \E k \in 1..Len(entry.lines[i]) : entry.lines[i][k] \notin {WS, NL}
PathsOf(seq) == [i \in 1..Len(seq) |-> seq[i].file]
\* the listed files the loop has passed
Read == Prefix(repo.files, Len(DiffCalls))

\* C30: in every mode the first git call is the validation and no diff is
\* read before it succeeded; the diffs are read in the listed order; the
\* records are those of the passed files whose diff could be read and is not
\* empty or whitespace-only, in the listed order, so an empty diff yields no
\* record and a failed read drops that file only; a getter that returns has
\* read every listed file, and only a failed validation or listing throws.
C30_ExtractionIsolated ==
    /\ git # <<>> => git[1].op = "checkIsRepo"
    /\ \A k \in 1..Len(git) : git[k].op # "checkIsRepo" => (k > 1 /\ repo.isRepo)
    /\ PathsOf(DiffCalls) = PathsOf(Read)
    /\ PathsOf(diffs) = PathsOf(SelectSeq(Read, Readable))
    /\ \A i \in 1..Len(diffs) : \A j \in 1..Len(diffs) : diffs[i].file = diffs[j].file => i = j
    /\ pc = "done" => (repo.isRepo /\ repo.listable /\ Len(DiffCalls) = Len(repo.files))
    /\ pc = "thrown" => (~(repo.isRepo /\ repo.listable) /\ diffs = <<>> /\ DiffCalls = <<>>)

\* the first file's diff cannot be read, the second file's record is returned
C30_Witness ==
    /\ pc = "done" /\ repo.gitMode = "commit"
    /\ Len(repo.files) = 2
    /\ repo.files[1].fails /\ Readable(repo.files[2])
    /\ PathsOf(diffs) = <<repo.files[2].file>>

----------------------------------------------------------------------------
\* Claims about the fatal conditions of the review command

\* the validation was tried and the directory is no repository
ValidationFailed == ~repo.isRepo /\ \E k \in 1..Len(git) : git[k].op = "checkIsRepo"
\* the probe was made and reported unhealthy
ProbeUnhealthy == health # <<>> /\ ~health[1].isHealthy

\* C23: once the validation of the repository has failed or the health probe
\* has reported unhealthy, the run has ended with exit status 1, without any
\* generation request and without any record processed, and nothing more
\* happens in it; a run in a directory that is no repository never issues a
\* generation request and never gets past the validation.
C23_FatalAborts ==
    /\ (ValidationFailed \/ ProbeUnhealthy) =>
          (pc = "exited" /\ exitCode = 1 /\ GenerateRequests = {} /\ log = <<>> /\ results = <<>>)
    /\ ~repo.isRepo =>
          (GenerateRequests = {} /\ log = <<>> /\ pc \in {"start", "changes", "exited", "interrupted"})
    /\ pc = "exited" => (exitCode = 1 /\ (ValidationFailed \/ ProbeUnhealthy) /\ ~ENABLED CommandNext)

\* the service is healthy, the directory is no repository: the run ends with status 1 at the validation
C23_Witness ==
    /\ pc = "exited" /\ exitCode = 1
    /\ health # <<>> /\ health[1].isHealthy
    /\ ~repo.isRepo /\ git = <<GitCall("checkIsRepo", <<>>)>>
    /\ requests = <<TagsRequest(config)>>

----------------------------------------------------------------------------
\* Claims about the extraction of the text to parse

\* where the first block with the opening marker begins, and the fence that ends it
FirstOpening(t, open) ==
    CHOOSE i \in 1..Len(t) : OccursAt(t, open, i) /\ \A j \in 1..(i - 1) : ~OccursAt(t, open, j)
NextFence(t, from) ==
    CHOOSE c \in from..Len(t) : t[c] = FENCE /\ \A j \in from..(c - 1) : t[j] # FENCE
\* t has a block that begins with the opening marker and ends with a later fence
HasBlock(t, open) ==
    \E i \in 1..Len(t) : OccursAt(t, open, i) /\ \E c \in (i + Len(open))..Len(t) : t[c] = FENCE
\* what stands between the marker and the fence, without the blanks around it
Interior(t, open) ==
    Trim(SubSeq(t, FirstOpening(t, open) + Len(open),
                NextFence(t, FirstOpening(t, open) + Len(open)) - 1))
HasBraces(t) == \E i \in 1..Len(t) : t[i] = "{" /\ \E j \in i..Len(t) : t[j] = "}"
BraceSpan(t) == SubSeq(t, FirstIndex(t, "{", 1), LastIndex(t, "}"))
OpensWithBrace(t) == t # <<>> /\ t[1] = "{"

\* the first applicable rule of the four
FirstApplicable(t) ==
    IF HasBlock(t, <<FENCE, "json">>) THEN Interior(t, <<FENCE, "json">>)
    ELSE IF HasBlock(t, <<FENCE>>) THEN Interior(t, <<FENCE>>)
    ELSE IF ~OpensWithBrace(t) /\ HasBraces(t) THEN BraceSpan(t)
    ELSE t

\* C24 as stated: the extracted text is chosen by the first applicable rule:
\* the interior of a block labelled json, else the interior of any fenced
\* block, else the span from the first '{' to the last '}' when the trimmed
\* reply does not start with '{', else the trimmed reply.
C24_FirstApplicable ==
    pc = "parsed" => extracted = FirstApplicable(Trim(reply))

\* step 1: the block of the first json marker when the reply has the marker
\* (nothing when no fence ends it), else the block of the first fence
Unfenced(t) ==
    IF Includes(t, <<FENCE, "json">>)
    THEN (IF HasBlock(t, <<FENCE, "json">>) THEN Interior(t, <<FENCE, "json">>) ELSE t)
    ELSE IF HasBlock(t, <<FENCE>>) THEN Interior(t, <<FENCE>>)
    ELSE t
\* step 2, whatever step 1 did
Unwrapped(t) == IF ~OpensWithBrace(t) /\ HasBraces(t) THEN Trim(BraceSpan(t)) ELSE Trim(t)

\* C24 amended: extraction takes two steps on the trimmed reply: first the
\* interior of the block of the first json marker (or, when the reply has no
\* json marker, of the first fence), if a later fence ends that block; then,
\* on the outcome of the first step, the span from the first '{' to the last
\* '}' when that text does not start with '{'.  A reply that starts with '{'
\* and holds no fence is passed on exactly as trimmed.
C24_TwoSteps ==
    pc = "parsed" =>
        /\ extracted = Unwrapped(Unfenced(Trim(reply)))
        /\ (OpensWithBrace(Trim(reply)) /\ CountFences(reply) = 0) => extracted = Trim(reply)

\* a json block that holds prose before the document: the document alone is extracted
C24_Witness ==
    /\ pc = "parsed"
    /\ reply = <<FENCE, "json", WS, "Here", ":", WS>> \o EmptyReviews \o <<WS, FENCE>>
    /\ extracted = EmptyReviews
    /\ parsed = << <<>> >>

----------------------------------------------------------------------------
\* Claims about the repair of the extracted text

\* the documents whose last string value lost its closing quote to give t
ClosedDocsOf(t) == {d \in DocTexts : d # EmptyReviews /\ Unclosed(d) = t}

\* C25 as stated: extracted text that parses is used unchanged; text that
\* fails to parse because of an unterminated string has that string closed and
\* is parsed once more, so that a reviews document lacking only the closing
\* quote of its last string value yields the findings of the whole document.
C25_RepairClosesString ==
    pc = "parsed" =>
        /\ JsonParse(extracted).ok => fixed = extracted
        /\ (engine /\ reply \in UnclosedDocs) =>
              \A d \in ClosedDocsOf(reply) :
                  parsed[1] = ParsedToResults(ReplyFile, JsonParse(d))

\* the one-entry document without the closing quote of its message yields nothing
C25_Witness ==
    /\ pc = "parsed" /\ engine
    /\ reply = Unclosed(ReviewsDoc(<<MakeEntry(Str(<<"error">>), Undefined, Str(<<"x">>), Undefined, Undefined)>>))
    /\ JsonParse(extracted).err = "unterminated"
    /\ fixed = EmptyReviews
    /\ parsed = << <<>> >>

\* the repair was tried and its text taken
RepairAdopted == fixed = CloseAt(extracted, LastIndex(extracted, Q))
\* neither the extracted text nor its repair was taken
BothFailed == pc = "parsed" /\ ~JsonParse(extracted).ok /\ ~RepairAdopted

\* the lengths of the prefixes of t that are valid, and of those that end a bracket
ValidPrefixes(t) == {n \in 0..Len(t) : JsonParse(Prefix(t, n)).ok}
ClosedPrefixes(t) == {n \in 1..Len(t) : t[n] \in {"}", "]"} /\ JsonParse(Prefix(t, n)).ok}
Longest(S) == CHOOSE n \in S : \A m \in S : m <= n

\* C26 as stated: when direct parsing and the repair both fail, the text that
\* is parsed is the longest valid prefix of the extracted text whenever one
\* exists, and the terminal fallback only when no prefix is valid.
C26_LongestValidPrefix ==
    BothFailed =>
        IF ValidPrefixes(extracted) = {} THEN fixed = EmptyReviews
        ELSE fixed = Prefix(extracted, Longest(ValidPrefixes(extracted)))

\* C26 amended: when direct parsing and the repair both fail, the text that is
\* parsed is the longest valid prefix of the extracted text that ends in '}'
\* or ']' whenever one exists; the terminal fallback is used when there is
\* none, also when a prefix that ends otherwise (a number, a string, null, or
\* a document followed by a blank) is valid.
C26_LongestClosedPrefix ==
    BothFailed =>
        /\ IF ClosedPrefixes(extracted) = {} THEN fixed = EmptyReviews
           ELSE fixed = Prefix(extracted, Longest(ClosedPrefixes(extracted)))
        /\ parsed[1] = ParsedToResults(ReplyFile, JsonParse(fixed))

\* a document followed by prose is cut back to the document
C26_Witness ==
    /\ BothFailed
    /\ reply = ReviewsDoc(<<MakeEntry(Str(<<"error">>), Undefined, Str(<<"x">>), Undefined, Undefined)>>)
                  \o <<WS, "prose">>
    /\ Len(fixed) = Len(extracted) - 2
    /\ Len(parsed[1]) = 1

----------------------------------------------------------------------------
\* Claims about the findings made from the entries of a document

\* the reply parses as it stands to a document with a list of entries
HoldsList(t) ==
    JsonParse(t).ok /\ JsonParse(t).val.t = "obj" /\ Get(JsonParse(t).val, "reviews").t = "arr"
EntriesOf(t) == Get(JsonParse(t).val, "reviews").items
HasText(v) == v.t = "str" /\ v.s # <<>>

\* C27 as stated: a reply that parses to a document whose list has k entries
\* gives exactly k findings, each with a non-empty message: the entry's own
\* message when it has one, the placeholder 'No description' when it is
\* missing or empty.
C27_EveryEntryAFinding ==
    (pc = "parsed" /\ HoldsList(reply)) =>
        /\ Len(parsed[1]) = Len(EntriesOf(reply))
        /\ \A i \in 1..Len(parsed[1]) : HasText(parsed[1][i].message)
        /\ \A i \in 1..Len(EntriesOf(reply)) :
              LET message == Get(EntriesOf(reply)[i], "message")
              IN i <= Len(parsed[1]) =>
                    /\ HasText(message) => parsed[1][i].message = message
                    /\ (message = Undefined \/ message = Str(<<>>)) =>
                          parsed[1][i].message = NoDescription

\* a null beside an entry: both are replaced by the one malformed-reply finding
C27_Witness ==
    /\ pc = "parsed"
    /\ reply = ReviewsDoc(<<Null, MakeEntry(Str(<<"error">>), Undefined, Str(<<"x">>), Undefined, Undefined)>>)
    /\ extracted = reply /\ fixed = reply
    /\ Len(EntriesOf(reply)) = 2
    /\ parsed[1] = ParseFallback(ReplyFile)

\* a numeral of the token texts that stands for an integer above zero
IsPositiveInteger(v) ==
    v.t = "num" /\ v.s # <<>> /\ v.s[1] = "12" /\ \A i \in 1..Len(v.s) : v.s[i] \in NumTok

\* C29 as stated: every finding has no line or a line that is a positive
\* integer, whatever the model reported for it.
C29_LinePositive ==
    pc = "parsed" =>
        \A j \in 1..Len(parsed[1]) :
            parsed[1][j].line = Undefined \/ IsPositiveInteger(parsed[1][j].line)

\* the line the model gave as a string comes back as that string
C29_Witness ==
    /\ pc = "parsed"
    /\ reply = ReviewsDoc(<<MakeEntry(Str(<<"warning">>), Str(<<"12">>), Str(<<"x">>), Undefined, Undefined)>>)
    /\ Len(parsed[1]) = 1
    /\ parsed[1][1].line = Str(<<"12">>)

----------------------------------------------------------------------------
\* Claims about the binary classification of a change record

\* git's notice for a binary file: a line "Binary files a/f and b/f differ"
HasBinaryMarker(lines) == SomeLine(lines, "Binary files")

\* C28 as stated: a change record is binary exactly when its diff body holds
\* the binary-diff marker; a textual diff without the marker is not binary,
\* whatever words its changed lines hold, and is not skipped as a binary file.
C28_BinaryIffMarker ==
    (mode = "extract" /\ pc = "done" /\ diffs # <<>>) =>
        /\ diffs[1].isBinary <=> HasBinaryMarker(raw.lines)
        /\ ~HasBinaryMarker(raw.lines) =>
              /\ Decision(diffs[1], config) # "skip-binary"
              /\ ~CliSkips(diffs[1], config)

\* a text diff whose added line holds the word "differ" is a binary record
C28_Witness ==
    /\ mode = "extract" /\ pc = "done"
    /\ raw.lines = << <<"+", "values", WS, "differ">> >>
    /\ Len(diffs) = 1
    /\ diffs[1].isBinary /\ diffs[1].additions = 1
    /\ CliSkips(diffs[1], config)

====
